---- MODULE Spec2Model ----
(***************************************************************************)
(* Model of rm-node-cli: the OTA job store of RMNodeManager, the publish   *)
(* path and the connection life cycle of MQTTOperations, and the           *)
(* ConnectionPool (rate limiter, concurrency cap, circuit breaker).        *)
(*                                                                         *)
(* Each subsystem has its own specification (SpecOta, SpecPublish,         *)
(* SpecSession, SpecPool).  All of them range over the same variables; a   *)
(* specification leaves the variables of the other subsystems unchanged.   *)
(***************************************************************************)
EXTENDS Integers, Sequences, FiniteSets, TLC

VARIABLES
    \* ---- OTA job store (RMNodeManager) and the send-ota-status handler
    ota_jobs,             \* self.ota_jobs: node_id -> {ota_job_id -> record}
    ota_status_history,   \* self.ota_status_history, same shape
    ota_now,              \* time.time() as seen by the job store
    sos_pc,               \* position of _handle_send_ota_status_core
    sos_job_id,           \* its job_id argument (None when absent)
    sos_targets,          \* target_nodes still to be processed by its loop
    \* ---- MQTTOperations.publish / publish_async
    pub_connected,        \* self.connected of the publishing session
    pub_request,          \* the arguments of the last publish call
    pub_handed,           \* what that call handed to mqtt_client.publish
    \* ---- one MQTTOperations session and the tasks that call it
    s_connected,          \* self.connected
    s_last_ping,          \* self.last_ping
    s_lock,               \* holder of self._connect_lock (None when free)
    s_now,                \* time.time()
    s_ticks,              \* number of clock advances so far
    s_pc,                 \* per caller: position inside the coroutine it runs
    s_op,                 \* per caller: the method it called
    s_ct,                 \* per caller: current_time local of is_connected_async
    s_wake,               \* per caller: end of its asyncio.sleep(1)
    s_probe_log,          \* issue times of the last two probes of the session
    \* ---- ConnectionPool
    config,               \* self.config (a PoolConfig)
    pool_life,            \* "unbuilt", "built", "running" (is_running) or "stopped"
    pool_now,             \* time.time() in seconds
    connections,          \* keys of self.connections
    connection_states,    \* self.connection_states: node_id -> ConnectionState
    circuit_breaker_timers, \* self.circuit_breaker_timers: node_id -> opening time
    consecutive_failures, \* connection_stats[node_id].consecutive_failures
    pending_connections,  \* self.pending_connections
    connection_semaphore, \* value of self.connection_semaphore
    rate_limiter,         \* value of self.rate_limiter
    task_pc,              \* per task of the gather: position in _connect_single_node
    task_attempt,         \* per task: loop variable attempt of _do_connection
    task_wake,            \* per task: end of its backoff sleep
    bringup_pc,           \* position of connect_nodes_batch
    bringup_batch,        \* node of each task the current gather waits for
    bringup_rest,         \* nodes of the batches still to come
    window_connects,      \* connect() calls initiated in the current second
    health_last,          \* when the health check loop last went to sleep
    disconnecting,        \* nodes whose _silent_disconnect task has not finished
    \* ---- RMNodeManager.publish_to_node
    ptn_pc,               \* position of the running call
    ptn_node,             \* its node_id argument
    ptn_attempt,          \* its loop variable attempt
    ptn_publishes,        \* publish_async calls it has made
    ptn_reconnects,       \* reconnect() calls it has made
    ptn_result,           \* what it returned
    ptn_entry,            \* what self.connections held for the node at the call

    \* ---- SelectiveSubscriptionManager
    subs_life,            \* "unbuilt" or "built"
    max_subscriptions,    \* self.max_subscriptions, 0 for None
    active_subscriptions, \* node_id -> set of topics (the keys present)
    subscription_priority, \* full topic -> priority, in insertion order
    session_subscribed,   \* full topics the MQTT sessions are subscribed to

    \* ---- AdaptiveMonitor
    mon_life,             \* "unbuilt" or "built"
    max_concurrent_monitors, \* self.max_concurrent_monitors
    monitor_semaphore,    \* permits of self.monitor_semaphore (unused when unlimited)
    mon_running,          \* self.is_running
    node_profiles,        \* node_id -> NodeMonitoringProfile
    active_monitors,      \* nodes whose monitoring loop runs

    \* ---- start-up and the shell's session book
    shell_pc,             \* "none", "connected", "prompt" or "ended"
    shell_sessions,       \* how many times the program was started
    shell_connected,      \* manager.get_connected_nodes(), in the pool's order
    shell_disconnecting,  \* nodes whose client the manager is disconnecting
    active_nodes,         \* "nodes" of active_config.json
    connection_history,   \* "nodes" of config_history.json

    \* ---- the OTA store under two threads (with ota_jobs, ota_status_history)
    cb_pc,                \* the MQTT callback thread inside store_ota_job
    cb_call,              \* its arguments
    op_pc,                \* the operator's thread inside move / clear
    op_call,              \* its arguments and job_data
    ota_jobs_file,        \* content of ota_jobs.json
    ota_status_history_file, \* content of ota_status_history.json
    stored_jobs,          \* <<node, job>> given to store_ota_job and not named since

    \* ---- a publishing verb of the shell (set-params, ota fetch)
    verb_pc,              \* "idle", "loop", "calling" or "reported"
    verb_name,            \* topic suffix the verb publishes to
    verb_targets,         \* target nodes still to do, the current one first
    verb_total,           \* len(nodes)
    success_count,        \* the verb's success_count
    verb_true,            \* calls of publish_to_node that returned True
    successful,           \* connect_nodes_batch: its local successful
    total_nodes,          \* connect_nodes_batch: its local total_nodes
    task_result,          \* what each task of the gather has returned
    call_connected,       \* connects the running connect_nodes_batch has brought about
    sweep_connections,    \* large pool: the keys of connections in insertion order
    sweep_failed,         \* large pool: the nodes a health sweep has marked Failed
    sweep_probed,         \* large pool: the nodes some health sweep has probed
    sweep_parity          \* large pool: the number of sweeps so far, modulo 2

otaVars == <<ota_jobs, ota_status_history, ota_now, sos_pc, sos_job_id, sos_targets>>
pubVars == <<pub_connected, pub_request, pub_handed>>
sessVars == <<s_connected, s_last_ping, s_lock, s_now, s_ticks, s_pc, s_op, s_ct,
              s_wake, s_probe_log>>
poolVars == <<config, pool_life, pool_now, connections, connection_states,
              circuit_breaker_timers, consecutive_failures, pending_connections,
              connection_semaphore, rate_limiter, task_pc, task_attempt, task_wake,
              bringup_pc, bringup_batch, bringup_rest, window_connects, health_last,
              disconnecting>>
ptnVars == <<ptn_pc, ptn_node, ptn_attempt, ptn_publishes, ptn_reconnects, ptn_result,
             ptn_entry>>
subsVars == <<subs_life, max_subscriptions, active_subscriptions,
              subscription_priority, session_subscribed>>
monVars == <<mon_life, max_concurrent_monitors, monitor_semaphore, mon_running,
             node_profiles, active_monitors>>
shellVars == <<shell_pc, shell_sessions, shell_connected, shell_disconnecting,
               active_nodes, connection_history>>
sweepVars == <<sweep_connections, sweep_failed, sweep_probed, sweep_parity>>
retVars == <<successful, total_nodes, task_result, call_connected>>
verbVars == <<verb_pc, verb_name, verb_targets, verb_total, success_count, verb_true>>
thrVars == <<cb_pc, cb_call, op_pc, op_call, ota_jobs_file, ota_status_history_file,
             stored_jobs>>
vars == <<otaVars, pubVars, sessVars, poolVars, ptnVars, subsVars, monVars, shellVars, thrVars, verbVars, retVars, sweepVars>>

None == "None"

(***************************************************************************)
(* Python dicts keep insertion order (list(d.keys())[0] is the oldest      *)
(* key), so a dict is modelled as a sequence of [k, v] entries with        *)
(* pairwise distinct keys.                                                 *)
(***************************************************************************)
EmptyDict == <<>>

DictKeys(d) == {d[i].k : i \in DOMAIN d}

DictHas(d, key) == key \in DictKeys(d)

DictGet(d, key) == d[CHOOSE i \in DOMAIN d : d[i].k = key].v

\* d[key] = val : an existing key keeps its position, a new key is appended
DictPut(d, key, val) ==
    IF DictHas(d, key)
    THEN [i \in DOMAIN d |-> IF d[i].k = key THEN [k |-> key, v |-> val] ELSE d[i]]
    ELSE Append(d, [k |-> key, v |-> val])

\* del d[key]
DictDel(d, key) ==
    LET keep(e) == e.k # key IN SelectSeq(d, keep)

(***************************************************************************)
(* A dict whose key order is never observed (ota_status_history) is a      *)
(* function on the set of its keys.                                        *)
(***************************************************************************)
EmptyMap == [x \in {} |-> None]

MapHas(m, key) == key \in DOMAIN m

MapPut(m, key, val) == [x \in DOMAIN m \cup {key} |-> IF x = key THEN val ELSE m[x]]

MapDel(m, key) == [x \in DOMAIN m \ {key} |-> m[x]]

(***************************************************************************)
(*                          OTA JOB STORE                                  *)
(***************************************************************************)
MaxOtaClock == 1

Nodes == {"n1", "n2"}
JobIds == {"J1", "J2"}
NoJobId == ""
Urls == {"https://x"}

\* payload convention of otastatus.status
InProgress == "in-progress"
TerminalStatuses == {"success", "failed", "rejected", "delayed"}
Statuses == TerminalStatuses \cup {InProgress}

\* the OTA jobs the cloud offers to each node
JobsOf(node_id) == IF node_id = "n1" THEN JobIds ELSE {"J1"}

\* inbound payloads on node/<id>/otaurl (the job id may be missing or empty)
OtaResponses(node_id) == [ota_job_id : JobsOf(node_id) \cup {NoJobId}, url : Urls]

\* store_ota_job: the dict after the call (unchanged when it returns False)
store_ota_job(jobs, node_id, ota_response, t) ==
    LET ota_job_id == ota_response.ota_job_id IN
    IF ota_job_id = NoJobId
    THEN jobs
    ELSE LET jobs0 == IF DictHas(jobs, node_id) THEN jobs
                      ELSE DictPut(jobs, node_id, EmptyDict)
             record == [ota_job_id  |-> ota_job_id,
                        url         |-> ota_response.url,
                        timestamp   |-> t,
                        received_at |-> t]
         IN DictPut(jobs0, node_id, DictPut(DictGet(jobs0, node_id), ota_job_id, record))

\* clear_ota_jobs(node_id) / clear_ota_jobs()
clear_ota_jobs(jobs, node_id) ==
    IF node_id # None THEN DictDel(jobs, node_id) ELSE EmptyDict

move_ota_job_to_history_keep(jobs, hist, node_id, job_id, status, t) ==
    IF DictHas(jobs, node_id) /\ DictHas(DictGet(jobs, node_id), job_id)
    THEN LET job == DictGet(DictGet(jobs, node_id), job_id)
             job_data == [ota_job_id         |-> job.ota_job_id,
                          url                |-> job.url,
                          timestamp          |-> job.timestamp,
                          received_at        |-> job.received_at,
                          ota_status         |-> status,
                          status_timestamp   |-> t,
                          status_received_at |-> t]
             hist0 == IF MapHas(hist, node_id) THEN hist
                      ELSE MapPut(hist, node_id, EmptyMap)
         IN [jobs |-> jobs,
             hist |-> MapPut(hist0, node_id, MapPut(hist0[node_id], job_id, job_data)),
             ret  |-> TRUE]
    ELSE [jobs |-> jobs, hist |-> hist, ret |-> FALSE]

\* move_ota_job_to_history: both dicts after the call, and the returned flag
move_ota_job_to_history(jobs, hist, node_id, job_id, status, t) ==
    IF DictHas(jobs, node_id) /\ DictHas(DictGet(jobs, node_id), job_id)
    THEN LET job == DictGet(DictGet(jobs, node_id), job_id)
             job_data == [ota_job_id         |-> job.ota_job_id,
                          url                |-> job.url,
                          timestamp          |-> job.timestamp,
                          received_at        |-> job.received_at,
                          ota_status         |-> status,
                          status_timestamp   |-> t,
                          status_received_at |-> t]
             hist0 == IF MapHas(hist, node_id) THEN hist
                      ELSE MapPut(hist, node_id, EmptyMap)
             rest  == DictDel(DictGet(jobs, node_id), job_id)
         IN [jobs |-> IF rest = EmptyDict THEN DictDel(jobs, node_id)
                      ELSE DictPut(jobs, node_id, rest),
             hist |-> MapPut(hist0, node_id, MapPut(hist0[node_id], job_id, job_data)),
             ret  |-> TRUE]
    ELSE [jobs |-> jobs, hist |-> hist, ret |-> FALSE]

InActive(node_id, job_id) ==
    DictHas(ota_jobs, node_id) /\ DictHas(DictGet(ota_jobs, node_id), job_id)

InHistory(node_id, job_id) ==
    MapHas(ota_status_history, node_id) /\ MapHas(ota_status_history[node_id], job_id)

HistoryRecord(node_id, job_id) == ota_status_history[node_id][job_id]

\* status = "success" in _handle_send_ota_status_core
SentOtaStatus == "success"

\* target_nodes of _handle_send_ota_status_core, in the iteration order of ota_jobs
TargetNodes(all_ota_jobs, job_id) ==
    LET hasJob(e) == DictHas(e.v, job_id)
        hasAny(e) == e.v # EmptyDict
        sel == IF job_id # None THEN SelectSeq(all_ota_jobs, hasJob)
               ELSE SelectSeq(all_ota_jobs, hasAny)
    IN [i \in DOMAIN sel |-> sel[i].k]

\* actual_job_id = job_id if job_id else list(all_ota_jobs[node_id].keys())[0]
ActualJobId(all_ota_jobs, node_id, job_id) ==
    IF job_id # None THEN job_id ELSE DictGet(all_ota_jobs, node_id)[1].k

MovesToHistoryInverted(status) == status = InProgress

\* the guard "if status != 'in-progress'" before the move
MovesToHistory(status) == status # InProgress

\* the otaurl message handler: store_ota_job(node_id, payload)
StoreOtaJob(node_id, ota_response) ==
    /\ ota_jobs' = store_ota_job(ota_jobs, node_id, ota_response, ota_now)
    /\ UNCHANGED <<ota_status_history, ota_now, sos_pc, sos_job_id, sos_targets>>
    /\ UNCHANGED <<pubVars, sessVars, poolVars, ptnVars, subsVars, monVars, shellVars, thrVars, verbVars, retVars, sweepVars>>

\* send-ota-status [--job-id J]: up to the start of the loop over target_nodes
SendOtaStatusStart(job_id) ==
    /\ sos_pc = "idle"
    /\ LET targets == TargetNodes(ota_jobs, job_id) IN
       IF ota_jobs = EmptyDict \/ targets = <<>>
       THEN UNCHANGED <<sos_pc, sos_job_id, sos_targets>>
       ELSE /\ sos_pc' = "loop"
            /\ sos_job_id' = job_id
            /\ sos_targets' = targets
    /\ UNCHANGED <<ota_jobs, ota_status_history, ota_now>>
    /\ UNCHANGED <<pubVars, sessVars, poolVars, ptnVars, subsVars, monVars, shellVars, thrVars, verbVars, retVars, sweepVars>>

\* one iteration of the loop: publish the status, then move the job
SendOtaStatusStep ==
    /\ sos_pc = "loop"
    /\ LET node_id == Head(sos_targets)
           actual_job_id == ActualJobId(ota_jobs, node_id, sos_job_id)
           moved == move_ota_job_to_history(ota_jobs, ota_status_history,
                                            node_id, actual_job_id, SentOtaStatus, ota_now)
       IN IF MovesToHistory(SentOtaStatus)
          THEN /\ ota_jobs' = moved.jobs
               /\ ota_status_history' = moved.hist
          ELSE UNCHANGED <<ota_jobs, ota_status_history>>
    /\ sos_targets' = Tail(sos_targets)
    /\ sos_pc' = IF Tail(sos_targets) = <<>> THEN "idle" ELSE "loop"
    /\ sos_job_id' = IF Tail(sos_targets) = <<>> THEN None ELSE sos_job_id
    /\ UNCHANGED ota_now
    /\ UNCHANGED <<pubVars, sessVars, poolVars, ptnVars, subsVars, monVars, shellVars, thrVars, verbVars, retVars, sweepVars>>

\* clear-ota-jobs [--node-id N], confirmed: active jobs and history are cleared
ClearOtaJobs(node_id) ==
    /\ sos_pc = "idle"
    /\ ota_jobs' = clear_ota_jobs(ota_jobs, node_id)
    /\ ota_status_history' = IF node_id # None THEN MapDel(ota_status_history, node_id)
                             ELSE EmptyMap
    /\ UNCHANGED <<ota_now, sos_pc, sos_job_id, sos_targets>>
    /\ UNCHANGED <<pubVars, sessVars, poolVars, ptnVars, subsVars, monVars, shellVars, thrVars, verbVars, retVars, sweepVars>>

OtaTick ==
    /\ ota_now < MaxOtaClock
    /\ ota_now' = ota_now + 1
    /\ UNCHANGED <<ota_jobs, ota_status_history, sos_pc, sos_job_id, sos_targets>>
    /\ UNCHANGED <<pubVars, sessVars, poolVars, ptnVars, subsVars, monVars, shellVars, thrVars, verbVars, retVars, sweepVars>>

OtaIdle ==
    /\ ota_jobs = EmptyDict
    /\ ota_status_history = EmptyMap
    /\ ota_now = 0
    /\ sos_pc = "idle"
    /\ sos_job_id = None
    /\ sos_targets = <<>>

NextOta ==
    \/ \E n \in Nodes : \E r \in OtaResponses(n) : StoreOtaJob(n, r)
    \/ \E j \in JobIds \cup {None} : SendOtaStatusStart(j)
    \/ SendOtaStatusStep
    \/ \E n \in Nodes \cup {None} : ClearOtaJobs(n)
    \/ OtaTick

(***************************************************************************)
(*     The OTA store under the MQTT callback thread and the operator       *)
(*                                                                         *)
(* The otaurl handler is the callback given to AWSIoTMQTTClient.subscribe, *)
(* so store_ota_job runs on the client's thread, while                     *)
(* move_ota_job_to_history and clear_ota_jobs run on the thread of the     *)
(* shell.  No lock is taken.  The threads are switched only where the code *)
(* calls a function (time.time, _save_ota_jobs, ...), which every CPython  *)
(* the package supports allows; a save is one step.                        *)
(***************************************************************************)
NoCall == [node_id |-> None]

\* the <<node, job>> pairs of a jobs dict
JobPairs(jobs) ==
    UNION { { <<jobs[i].k, jobs[i].v[x].k>> : x \in DOMAIN jobs[i].v } : i \in DOMAIN jobs }

\* store_ota_job up to the evaluation of the record: the job id is read, the
\* node entry is made if it is missing, then time.time() is called
StoreCall(node_id, ota_response) ==
    /\ cb_pc = "idle"
    /\ IF ota_response.ota_job_id = NoJobId
       THEN UNCHANGED <<ota_jobs, cb_pc, cb_call, stored_jobs>>
       ELSE /\ ota_jobs' = IF DictHas(ota_jobs, node_id) THEN ota_jobs
                           ELSE DictPut(ota_jobs, node_id, EmptyDict)
            /\ cb_pc' = "stamp"
            /\ cb_call' = [node_id |-> node_id, ota_response |-> ota_response]
            /\ stored_jobs' = stored_jobs \cup {<<node_id, ota_response.ota_job_id>>}
    /\ UNCHANGED <<ota_status_history, ota_now, sos_pc, sos_job_id, sos_targets>>
    /\ UNCHANGED <<op_pc, op_call, ota_jobs_file, ota_status_history_file>>
    /\ UNCHANGED <<pubVars, sessVars, poolVars, ptnVars, subsVars, monVars, shellVars, verbVars, retVars, sweepVars>>

\* "self.ota_jobs[node_id][ota_job_id] = {...}": a KeyError on a node entry
\* that is gone is caught by "except Exception" and the call returns False
StoreWrite ==
    /\ cb_pc = "stamp"
    /\ LET node_id == cb_call.node_id
           ota_job_id == cb_call.ota_response.ota_job_id
           record == [ota_job_id  |-> ota_job_id,
                      url         |-> cb_call.ota_response.url,
                      timestamp   |-> ota_now,
                      received_at |-> ota_now]
       IN IF DictHas(ota_jobs, node_id)
          THEN /\ ota_jobs' = DictPut(ota_jobs, node_id,
                                      DictPut(DictGet(ota_jobs, node_id), ota_job_id, record))
               /\ cb_pc' = "save"
               /\ UNCHANGED cb_call
          ELSE /\ cb_pc' = "idle"
               /\ cb_call' = NoCall
               /\ UNCHANGED ota_jobs
    /\ UNCHANGED <<ota_status_history, ota_now, sos_pc, sos_job_id, sos_targets>>
    /\ UNCHANGED <<op_pc, op_call, ota_jobs_file, ota_status_history_file, stored_jobs>>
    /\ UNCHANGED <<pubVars, sessVars, poolVars, ptnVars, subsVars, monVars, shellVars, verbVars, retVars, sweepVars>>

\* self._save_ota_jobs() of store_ota_job
StoreSave ==
    /\ cb_pc = "save"
    /\ ota_jobs_file' = ota_jobs
    /\ cb_pc' = "idle"
    /\ cb_call' = NoCall
    /\ UNCHANGED <<otaVars, op_pc, op_call, ota_status_history_file, stored_jobs>>
    /\ UNCHANGED <<pubVars, sessVars, poolVars, ptnVars, subsVars, monVars, shellVars, verbVars, retVars, sweepVars>>

\* move_ota_job_to_history up to job_data = ....copy() and the time calls
MoveCall(node_id, job_id, status) ==
    /\ op_pc = "idle"
    /\ stored_jobs' = stored_jobs \ {<<node_id, job_id>>}
    /\ IF DictHas(ota_jobs, node_id) /\ DictHas(DictGet(ota_jobs, node_id), job_id)
       THEN /\ op_pc' = "stamp"
            /\ op_call' = [node_id |-> node_id, job_id |-> job_id, status |-> status,
                           job_data |-> DictGet(DictGet(ota_jobs, node_id), job_id)]
       ELSE UNCHANGED <<op_pc, op_call>>
    /\ UNCHANGED <<otaVars, cb_pc, cb_call, ota_jobs_file, ota_status_history_file>>
    /\ UNCHANGED <<pubVars, sessVars, poolVars, ptnVars, subsVars, monVars, shellVars, verbVars, retVars, sweepVars>>

\* the record goes to the history, the job and then an empty node entry are
\* deleted from ota_jobs
MoveApply ==
    /\ op_pc = "stamp"
    /\ LET node_id == op_call.node_id
           job == op_call.job_data
           job_data == [ota_job_id         |-> job.ota_job_id,
                        url                |-> job.url,
                        timestamp          |-> job.timestamp,
                        received_at        |-> job.received_at,
                        ota_status         |-> op_call.status,
                        status_timestamp   |-> ota_now,
                        status_received_at |-> ota_now]
           hist0 == IF MapHas(ota_status_history, node_id) THEN ota_status_history
                    ELSE MapPut(ota_status_history, node_id, EmptyMap)
           rest  == DictDel(DictGet(ota_jobs, node_id), op_call.job_id)
       IN /\ ota_status_history' =
                MapPut(hist0, node_id, MapPut(hist0[node_id], op_call.job_id, job_data))
          /\ ota_jobs' = IF rest = EmptyDict THEN DictDel(ota_jobs, node_id)
                         ELSE DictPut(ota_jobs, node_id, rest)
    /\ op_pc' = "save_jobs"
    /\ UNCHANGED <<ota_now, sos_pc, sos_job_id, sos_targets>>
    /\ UNCHANGED <<cb_pc, cb_call, op_call, ota_jobs_file, ota_status_history_file,
                   stored_jobs>>
    /\ UNCHANGED <<pubVars, sessVars, poolVars, ptnVars, subsVars, monVars, shellVars, verbVars, retVars, sweepVars>>

\* self._save_ota_jobs() of move_ota_job_to_history
MoveSaveJobs ==
    /\ op_pc = "save_jobs"
    /\ ota_jobs_file' = ota_jobs
    /\ op_pc' = "save_history"
    /\ UNCHANGED <<otaVars, cb_pc, cb_call, op_call, ota_status_history_file, stored_jobs>>
    /\ UNCHANGED <<pubVars, sessVars, poolVars, ptnVars, subsVars, monVars, shellVars, verbVars, retVars, sweepVars>>

\* self._save_ota_status_history(), and the call returns True
MoveSaveHistory ==
    /\ op_pc = "save_history"
    /\ ota_status_history_file' = ota_status_history
    /\ op_pc' = "idle"
    /\ op_call' = NoCall
    /\ UNCHANGED <<otaVars, cb_pc, cb_call, ota_jobs_file, stored_jobs>>
    /\ UNCHANGED <<pubVars, sessVars, poolVars, ptnVars, subsVars, monVars, shellVars, verbVars, retVars, sweepVars>>

\* clear_ota_jobs(node_id) / clear_ota_jobs() up to its _save_ota_jobs()
ClearCall(node_id) ==
    /\ op_pc = "idle"
    /\ stored_jobs' = IF node_id # None THEN {p \in stored_jobs : p[1] # node_id} ELSE {}
    /\ ota_jobs' = clear_ota_jobs(ota_jobs, node_id)
    /\ IF node_id # None /\ ~DictHas(ota_jobs, node_id)
       THEN UNCHANGED <<op_pc, op_call>>
       ELSE /\ op_pc' = "save_clear"
            /\ op_call' = [node_id |-> node_id]
    /\ UNCHANGED <<ota_status_history, ota_now, sos_pc, sos_job_id, sos_targets>>
    /\ UNCHANGED <<cb_pc, cb_call, ota_jobs_file, ota_status_history_file>>
    /\ UNCHANGED <<pubVars, sessVars, poolVars, ptnVars, subsVars, monVars, shellVars, verbVars, retVars, sweepVars>>

\* self._save_ota_jobs() of clear_ota_jobs
ClearSave ==
    /\ op_pc = "save_clear"
    /\ ota_jobs_file' = ota_jobs
    /\ op_pc' = "idle"
    /\ op_call' = NoCall
    /\ UNCHANGED <<otaVars, cb_pc, cb_call, ota_status_history_file, stored_jobs>>
    /\ UNCHANGED <<pubVars, sessVars, poolVars, ptnVars, subsVars, monVars, shellVars, verbVars, retVars, sweepVars>>

ThrIdle ==
    /\ cb_pc = "idle"
    /\ cb_call = NoCall
    /\ op_pc = "idle"
    /\ op_call = NoCall
    /\ ota_jobs_file = EmptyDict
    /\ ota_status_history_file = EmptyMap
    /\ stored_jobs = {}

NextOtaThreads ==
    \/ \E n \in Nodes : \E r \in OtaResponses(n) : StoreCall(n, r)
    \/ StoreWrite
    \/ StoreSave
    \/ \E n \in Nodes, j \in JobIds : MoveCall(n, j, SentOtaStatus)
    \/ MoveApply
    \/ MoveSaveJobs
    \/ MoveSaveHistory
    \/ \E n \in Nodes \cup {None} : ClearCall(n)
    \/ ClearSave

(***************************************************************************)
(*              MQTTOperations.publish / publish_async                     *)
(***************************************************************************)
\* topics are strings; a string is the sequence of its characters
StrNode      == <<"n","o","d","e">>
StrOtastatus == <<"o","t","a","s","t","a","t","u","s">>
StrOtafetch  == <<"o","t","a","f","e","t","c","h">>
StrConfig    == <<"c","o","n","f","i","g">>
StrParamsLocal == <<"p","a","r","a","m","s","/","l","o","c","a","l">>

\* node ids are opaque strings
NodeIdStrings == { <<"n","1">>, <<"N","2","o","t","a">>, StrOtastatus \o <<"1">> }

\* topic suffixes the shell publishes to
TopicSuffixes == {StrConfig, StrParamsLocal, StrOtafetch, StrOtastatus}

QosLevels == {0, 1, 2}

\* f"node/{node_id}/{suffix}"
TopicOf(node_id, suffix) == StrNode \o <<"/">> \o node_id \o <<"/">> \o suffix

\* Python's "needle in text" on strings
StrContains(needle, text) ==
    \E i \in 1..(Len(text) - Len(needle) + 1) :
        SubSeq(text, i, i + Len(needle) - 1) = needle

\* the qos publish / publish_async hand to mqtt_client.publish
PublishQos(topic, qos) == IF StrContains(StrOtastatus, topic) THEN 0 ELSE qos

\* publish(topic, payload, qos) and publish_async(topic, payload, qos):
\*   alive   - what is_connected() answers for a session marked connected
\*   connect - the outcome of connect() when is_connected() answered False
Publish(api, node_id, suffix, qos, alive, connect) ==
    LET topic == TopicOf(node_id, suffix)
        is_connected == pub_connected /\ alive
        raised == ~is_connected /\ connect = "raise"
    IN /\ pub_request' = [api |-> api, node_id |-> node_id, suffix |-> suffix,
                          topic |-> topic, qos |-> qos]
       /\ pub_connected' = IF is_connected THEN TRUE ELSE connect = "ok"
       /\ pub_handed' = IF raised THEN [sent |-> FALSE, topic |-> <<>>, qos |-> 0]
                        ELSE [sent |-> TRUE, topic |-> topic, qos |-> PublishQos(topic, qos)]
       /\ UNCHANGED <<otaVars, sessVars, poolVars, ptnVars, subsVars, monVars, shellVars, thrVars, verbVars, retVars, sweepVars>>

PubIdle ==
    /\ pub_connected = FALSE
    /\ pub_request = [api |-> "none", node_id |-> <<>>, suffix |-> <<>>,
                      topic |-> <<>>, qos |-> 0]
    /\ pub_handed = [sent |-> FALSE, topic |-> <<>>, qos |-> 0]

NextPublish ==
    \E api \in {"publish", "publish_async"}, n \in NodeIdStrings, sfx \in TopicSuffixes,
       q \in QosLevels, alive \in BOOLEAN, c \in {"ok", "false", "raise"} :
        Publish(api, n, sfx, q, alive, c)

(***************************************************************************)
(*        MQTTOperations: connect / disconnect / reconnect / probe         *)
(*                                                                         *)
(* The async methods are coroutines on one event loop: the code between    *)
(* two awaits is one step.  The blocking client calls run in executor      *)
(* threads; their results are inputs of the step that resumes the caller.  *)
(* The sync methods block the loop, so each is one step.                   *)
(***************************************************************************)
MaxSessionTicks == 3

PingInterval == 45

Callers == {"t1", "t2"}

AsyncOps == {"is_connected_async", "connect_async", "disconnect_async",
             "reconnect_async", "publish_async", "subscribe_async"}

\* how far the clock moves between two steps (seconds)
TickSteps == {1, PingInterval - 1, PingInterval}

ClientResults == {"true", "false", "raise"}

\* the probe is due: not (current_time - self.last_ping < self.ping_interval)
ProbeDue(current_time, last_ping) == ~(current_time - last_ping < PingInterval)

LogProbe(log, t) == IF Len(log) < 2 THEN Append(log, t) ELSE <<log[2], t>>

\* where a caller goes when is_connected_async has answered
AfterIsConnected(op, answer) ==
    IF op = "is_connected_async" THEN "idle"
    ELSE IF answer THEN "send" ELSE "ca_lock"

\* where a caller goes when connect_async has returned or raised
AfterConnect(op, raised) ==
    IF op \in {"publish_async", "subscribe_async"} /\ ~raised THEN "send" ELSE "idle"

Resume(c, pc) ==
    /\ s_pc' = [s_pc EXCEPT ![c] = pc]
    /\ s_op' = IF pc = "idle" THEN [s_op EXCEPT ![c] = "none"] ELSE s_op

\* a task starts running one of the async methods
Call(c, op) ==
    /\ s_pc[c] = "idle"
    /\ s_pc' = [s_pc EXCEPT ![c] =
                  CASE op \in {"is_connected_async", "publish_async", "subscribe_async"}
                            -> "ica_check"
                    [] op = "connect_async" -> "ca_lock"
                    [] OTHER -> "da_start"]
    /\ s_op' = [s_op EXCEPT ![c] = op]
    /\ UNCHANGED <<s_connected, s_last_ping, s_lock, s_now, s_ticks, s_ct, s_wake,
                   s_probe_log>>
    /\ UNCHANGED <<otaVars, pubVars, poolVars, ptnVars, subsVars, monVars, shellVars, thrVars, verbVars, retVars, sweepVars>>

\* is_connected_async up to its await: quick check, interval check, probe issued
IcaCheck(c) ==
    /\ s_pc[c] = "ica_check"
    /\ IF ~s_connected
       THEN /\ Resume(c, AfterIsConnected(s_op[c], FALSE))
            /\ UNCHANGED <<s_ct, s_probe_log>>
       ELSE IF ~ProbeDue(s_now, s_last_ping)
       THEN /\ Resume(c, AfterIsConnected(s_op[c], s_connected))
            /\ UNCHANGED <<s_ct, s_probe_log>>
       ELSE /\ s_pc' = [s_pc EXCEPT ![c] = "ica_probe"]
            /\ s_ct' = [s_ct EXCEPT ![c] = s_now]
            /\ s_probe_log' = LogProbe(s_probe_log, s_now)
            /\ UNCHANGED s_op
    /\ UNCHANGED <<s_connected, s_last_ping, s_lock, s_now, s_ticks, s_wake>>
    /\ UNCHANGED <<otaVars, pubVars, poolVars, ptnVars, subsVars, monVars, shellVars, thrVars, verbVars, retVars, sweepVars>>

\* the probe publish returns, raises or times out
IcaProbeReturn(c, r) ==
    /\ s_pc[c] = "ica_probe"
    /\ IF r = "raise"
       THEN /\ s_connected' = FALSE
            /\ UNCHANGED s_last_ping
       ELSE /\ s_connected' = (r = "true")
            /\ s_last_ping' = s_ct[c]
    /\ Resume(c, AfterIsConnected(s_op[c], r = "true"))
    /\ s_ct' = [s_ct EXCEPT ![c] = 0]
    /\ UNCHANGED <<s_lock, s_now, s_ticks, s_wake, s_probe_log>>
    /\ UNCHANGED <<otaVars, pubVars, poolVars, ptnVars, subsVars, monVars, shellVars, thrVars, verbVars, retVars, sweepVars>>

\* connect_async: async with self._connect_lock, up to the await of connect
CaAcquire(c) ==
    /\ s_pc[c] = "ca_lock"
    /\ s_lock = None
    /\ IF ~s_connected
       THEN /\ s_lock' = c
            /\ s_pc' = [s_pc EXCEPT ![c] = "ca_connecting"]
            /\ UNCHANGED s_op
       ELSE /\ UNCHANGED s_lock
            /\ Resume(c, AfterConnect(s_op[c], FALSE))
    /\ UNCHANGED <<s_connected, s_last_ping, s_now, s_ticks, s_ct, s_wake, s_probe_log>>
    /\ UNCHANGED <<otaVars, pubVars, poolVars, ptnVars, subsVars, monVars, shellVars, thrVars, verbVars, retVars, sweepVars>>

\* mqtt_client.connect returns or raises; the lock is released
CaConnectReturn(c, r) ==
    /\ s_pc[c] = "ca_connecting"
    /\ s_connected' = CASE r = "true" -> TRUE [] r = "false" -> s_connected [] OTHER -> FALSE
    /\ s_last_ping' = IF r = "true" THEN s_now ELSE s_last_ping
    /\ s_lock' = None
    /\ Resume(c, AfterConnect(s_op[c], r = "raise"))
    /\ UNCHANGED <<s_now, s_ticks, s_ct, s_wake, s_probe_log>>
    /\ UNCHANGED <<otaVars, pubVars, poolVars, ptnVars, subsVars, monVars, shellVars, thrVars, verbVars, retVars, sweepVars>>

\* disconnect_async up to its await: _silent_disconnect starts in the executor
DaStart(c) ==
    /\ s_pc[c] = "da_start"
    /\ s_pc' = [s_pc EXCEPT ![c] = "da_disconnecting"]
    /\ UNCHANGED <<s_connected, s_last_ping, s_lock, s_now, s_ticks, s_op, s_ct, s_wake,
                   s_probe_log>>
    /\ UNCHANGED <<otaVars, pubVars, poolVars, ptnVars, subsVars, monVars, shellVars, thrVars, verbVars, retVars, sweepVars>>

\* _silent_disconnect is back; reconnect_async goes on to asyncio.sleep(1)
DaReturn(c) ==
    /\ s_pc[c] = "da_disconnecting"
    /\ s_connected' = FALSE
    /\ IF s_op[c] = "reconnect_async"
       THEN /\ s_pc' = [s_pc EXCEPT ![c] = "ra_sleep"]
            /\ s_wake' = [s_wake EXCEPT ![c] = s_now + 1]
            /\ UNCHANGED s_op
       ELSE /\ Resume(c, "idle")
            /\ UNCHANGED s_wake
    /\ UNCHANGED <<s_last_ping, s_lock, s_now, s_ticks, s_ct, s_probe_log>>
    /\ UNCHANGED <<otaVars, pubVars, poolVars, ptnVars, subsVars, monVars, shellVars, thrVars, verbVars, retVars, sweepVars>>

\* the sleep of reconnect_async is over: connect_async is called
RaWake(c) ==
    /\ s_pc[c] = "ra_sleep"
    /\ s_now >= s_wake[c]
    /\ s_pc' = [s_pc EXCEPT ![c] = "ca_lock"]
    /\ s_wake' = [s_wake EXCEPT ![c] = 0]
    /\ UNCHANGED <<s_connected, s_last_ping, s_lock, s_now, s_ticks, s_op, s_ct,
                   s_probe_log>>
    /\ UNCHANGED <<otaVars, pubVars, poolVars, ptnVars, subsVars, monVars, shellVars, thrVars, verbVars, retVars, sweepVars>>

\* publish_async / subscribe_async: the client call in the executor, and return
Send(c) ==
    /\ s_pc[c] = "send"
    /\ Resume(c, "idle")
    /\ UNCHANGED <<s_connected, s_last_ping, s_lock, s_now, s_ticks, s_ct, s_wake,
                   s_probe_log>>
    /\ UNCHANGED <<otaVars, pubVars, poolVars, ptnVars, subsVars, monVars, shellVars, thrVars, verbVars, retVars, sweepVars>>

\* is_connected(): the sync twin, probe included, in one step
SyncIsConnected(r) ==
    /\ s_connected
    /\ ProbeDue(s_now, s_last_ping)
    /\ s_probe_log' = LogProbe(s_probe_log, s_now)
    /\ IF r = "raise"
       THEN /\ s_connected' = FALSE
            /\ UNCHANGED s_last_ping
       ELSE /\ s_connected' = (r = "true")
            /\ s_last_ping' = s_now
    /\ UNCHANGED <<s_lock, s_now, s_ticks, s_pc, s_op, s_ct, s_wake>>
    /\ UNCHANGED <<otaVars, pubVars, poolVars, ptnVars, subsVars, monVars, shellVars, thrVars, verbVars, retVars, sweepVars>>

\* connect(): the sync twin, without the lock
SyncConnect(r) ==
    /\ ~s_connected
    /\ s_connected' = (r = "true")
    /\ s_last_ping' = IF r = "true" THEN s_now ELSE s_last_ping
    /\ UNCHANGED <<s_lock, s_now, s_ticks, s_pc, s_op, s_ct, s_wake, s_probe_log>>
    /\ UNCHANGED <<otaVars, pubVars, poolVars, ptnVars, subsVars, monVars, shellVars, thrVars, verbVars, retVars, sweepVars>>

\* disconnect(): the sync twin
SyncDisconnect ==
    /\ s_connected
    /\ s_connected' = FALSE
    /\ UNCHANGED <<s_last_ping, s_lock, s_now, s_ticks, s_pc, s_op, s_ct, s_wake,
                   s_probe_log>>
    /\ UNCHANGED <<otaVars, pubVars, poolVars, ptnVars, subsVars, monVars, shellVars, thrVars, verbVars, retVars, sweepVars>>

\* reconnect(): disconnect(), time.sleep(1), connect()
SyncReconnect(r) ==
    /\ s_ticks < MaxSessionTicks
    /\ s_ticks' = s_ticks + 1
    /\ s_now' = s_now + 1
    /\ s_connected' = (r = "true")
    /\ s_last_ping' = IF r = "true" THEN s_now + 1 ELSE s_last_ping
    /\ UNCHANGED <<s_lock, s_pc, s_op, s_ct, s_wake, s_probe_log>>
    /\ UNCHANGED <<otaVars, pubVars, poolVars, ptnVars, subsVars, monVars, shellVars, thrVars, verbVars, retVars, sweepVars>>

SessionTick(d) ==
    /\ s_ticks < MaxSessionTicks
    /\ s_ticks' = s_ticks + 1
    /\ s_now' = s_now + d
    /\ UNCHANGED <<s_connected, s_last_ping, s_lock, s_pc, s_op, s_ct, s_wake,
                   s_probe_log>>
    /\ UNCHANGED <<otaVars, pubVars, poolVars, ptnVars, subsVars, monVars, shellVars, thrVars, verbVars, retVars, sweepVars>>

SessIdle ==
    /\ s_connected = FALSE
    /\ s_last_ping = 0
    /\ s_lock = None
    /\ s_now = 0
    /\ s_ticks = 0
    /\ s_pc = [c \in Callers |-> "idle"]
    /\ s_op = [c \in Callers |-> "none"]
    /\ s_ct = [c \in Callers |-> 0]
    /\ s_wake = [c \in Callers |-> 0]
    /\ s_probe_log = <<>>

NextSession ==
    \/ \E c \in Callers, op \in AsyncOps : Call(c, op)
    \/ \E c \in Callers : IcaCheck(c)
    \/ \E c \in Callers, r \in ClientResults : IcaProbeReturn(c, r)
    \/ \E c \in Callers : CaAcquire(c)
    \/ \E c \in Callers, r \in ClientResults : CaConnectReturn(c, r)
    \/ \E c \in Callers : DaStart(c)
    \/ \E c \in Callers : DaReturn(c)
    \/ \E c \in Callers : RaWake(c)
    \/ \E c \in Callers : Send(c)
    \/ \E r \in ClientResults : SyncIsConnected(r)
    \/ \E r \in ClientResults : SyncConnect(r)
    \/ SyncDisconnect
    \/ \E r \in ClientResults : SyncReconnect(r)
    \/ \E d \in TickSteps : SessionTick(d)

ConnectsInFlight == {c \in Callers : s_pc[c] = "ca_connecting"}

DisconnectsInFlight == {c \in Callers : s_pc[c] = "da_disconnecting"}

(***************************************************************************)
(*                           ConnectionPool                                *)
(*                                                                         *)
(* The pool's coroutines run on one event loop: the code between two       *)
(* awaits is one step.  Time is counted in seconds; the refill loop of the *)
(* rate limiter sleeps 1.0 s, so one clock step is one turn of that loop.  *)
(***************************************************************************)
MaxPoolTime == 2

\* longest node list handed to one bring-up call
MaxBringUpLen == 3

PoolNodes == {"n1", "n2"}

\* the order in which discovery lists the nodes
NodeOrder == <<"n1", "n2">>

\* the nodes discover_nodes lists at start-up, in its order
StartupNodes == <<"n1", "n2", "n3", "n4", "n5">>

\* class ConnectionState
Disconnected == "disconnected"
Connecting   == "connecting"
Connected    == "connected"
Failed       == "failed"
CircuitOpen  == "circuit_open"

ConnectionStates == {Disconnected, Connecting, Connected, Failed, CircuitOpen}

\* PoolConfig values the pool is built with (times in seconds)
PoolConfigs ==
    { [max_concurrent_connections |-> 0, connection_rate_limit |-> 0, batch_size |-> 0,
       circuit_breaker_threshold |-> 3, circuit_breaker_timeout |-> 1,
       health_check_interval |-> 2, max_retries |-> 2],
      [max_concurrent_connections |-> 1, connection_rate_limit |-> 0, batch_size |-> 0,
       circuit_breaker_threshold |-> 3, circuit_breaker_timeout |-> 1,
       health_check_interval |-> 2, max_retries |-> 2],
      [max_concurrent_connections |-> 2, connection_rate_limit |-> 0, batch_size |-> 0,
       circuit_breaker_threshold |-> 1, circuit_breaker_timeout |-> 2,
       health_check_interval |-> 2, max_retries |-> 2],
      [max_concurrent_connections |-> 2, connection_rate_limit |-> 1, batch_size |-> 0,
       circuit_breaker_threshold |-> 2, circuit_breaker_timeout |-> 1,
       health_check_interval |-> 2, max_retries |-> 1],
      [max_concurrent_connections |-> 0, connection_rate_limit |-> 2, batch_size |-> 2,
       circuit_breaker_threshold |-> 3, circuit_breaker_timeout |-> 1,
       health_check_interval |-> 2, max_retries |-> 1] }

\* self.config before the pool is built
UnbuiltConfig ==
    [max_concurrent_connections |-> 0, connection_rate_limit |-> 0, batch_size |-> 0,
     circuit_breaker_threshold |-> 0, circuit_breaker_timeout |-> 0,
     health_check_interval |-> 0, max_retries |-> 0]

\* node lists handed to connect_nodes_batch, a node id possibly listed twice;
\* nodes behave alike, so the lists are taken in discovery order
NodeIndex(node_id) == CHOOSE i \in DOMAIN NodeOrder : NodeOrder[i] = node_id

BringUpInputs ==
    { s \in UNION { [1..k -> PoolNodes] : k \in 0..MaxBringUpLen } :
        \A i \in DOMAIN s : \A j \in DOMAIN s :
            i < j => NodeIndex(s[i]) <= NodeIndex(s[j]) }

\* the tasks of one gather, numbered in the order of creation
TaskSlots == 1 .. (IF MaxBringUpLen > Len(StartupNodes) THEN MaxBringUpLen
                   ELSE Len(StartupNodes))

\* node_id argument of task i
NodeOf(i) == bringup_batch[i]

SeqRange(s) == {s[i] : i \in DOMAIN s}

is_running == pool_life = "running"

\* self.connection_states.get(node_id, ConnectionState.DISCONNECTED)
StateOf(states, node_id) ==
    IF MapHas(states, node_id) THEN states[node_id] ELSE Disconnected

\* "if self.connection_semaphore:" / "if self.rate_limiter:"
SemaphoreBounded == config.max_concurrent_connections > 0

RateBounded == config.connection_rate_limit > 0

SemaphoreFreeAlways(value) == TRUE

\* asyncio.Semaphore.acquire goes through without waiting when the value is > 0
SemaphoreFree(value) == value > 0

should_attempt_connection_no_expiry(states, timers, node_id, t) ==
    [ok |-> StateOf(states, node_id) \in {Disconnected, Failed},
     states |-> states, timers |-> timers]

\* _should_attempt_connection at time t: the answer and the dicts after the call
should_attempt_connection(states, timers, node_id, t) ==
    IF StateOf(states, node_id) = CircuitOpen
    THEN IF MapHas(timers, node_id)
            /\ t - timers[node_id] > config.circuit_breaker_timeout
         THEN [ok |-> TRUE,
               states |-> MapPut(states, node_id, Disconnected),
               timers |-> MapDel(timers, node_id)]
         ELSE [ok |-> FALSE, states |-> states, timers |-> timers]
    ELSE [ok |-> StateOf(states, node_id) \in {Disconnected, Failed},
          states |-> states, timers |-> timers]

\* _connect_batch up to its gather: the nodes that get a task, in list order
RECURSIVE connect_batch(_, _, _, _)
connect_batch(states, timers, batch, t) ==
    IF batch = <<>>
    THEN [states |-> states, timers |-> timers, tasks |-> <<>>]
    ELSE LET sa == should_attempt_connection(states, timers, Head(batch), t)
             r  == connect_batch(sa.states, sa.timers, Tail(batch), t)
         IN [states |-> r.states, timers |-> r.timers,
             tasks |-> IF sa.ok THEN <<Head(batch)>> \o r.tasks ELSE r.tasks]

\* seconds (rounded down) of retry_backoff_base ** attempt + uniform(0, jitter_range)
\* with retry_backoff_base = 1.5 and jitter_range = 0.2
BackoffSeconds(attempt) ==
    CASE attempt = 0 -> 1
      [] attempt = 1 -> 1
      [] OTHER       -> 2

\* the tasks of _connect_single_node that are inside _do_connection
InDoConnection == {i \in TaskSlots : task_pc[i] \in {"connecting", "backoff"}}

\* the first task of the gather that has not run yet
NextCreated ==
    LET created == {i \in DOMAIN bringup_batch : task_pc[i] = "created"}
    IN IF created = {} THEN 0
       ELSE CHOOSE i \in created : \A j \in created : i <= j

\* The tasks of a gather are ready at once and run one after the other before
\* any callback that is queued later (a finished connect, a timer, a released
\* semaphore); only what was queued before the gather can run ahead of them.
GatherStarted == NextCreated = 0

\* ConnectionPool(config)
PoolCreate(c) ==
    /\ pool_life = "unbuilt"
    /\ pool_life' = "built"
    /\ config' = c
    /\ connection_semaphore' = c.max_concurrent_connections
    /\ rate_limiter' = c.connection_rate_limit
    /\ UNCHANGED <<pool_now, connections, connection_states, circuit_breaker_timers,
                   consecutive_failures, pending_connections, task_pc, task_attempt,
                   task_wake, bringup_pc, bringup_batch, bringup_rest,
                   window_connects, health_last, disconnecting>>
    /\ UNCHANGED <<otaVars, pubVars, sessVars, ptnVars, subsVars, monVars, shellVars, thrVars, verbVars, retVars, sweepVars>>

\* start(): is_running, and the two background loops go to sleep
PoolStart ==
    /\ pool_life = "built"
    /\ pool_life' = "running"
    /\ health_last' = pool_now
    /\ UNCHANGED <<config, pool_now, connections, connection_states,
                   circuit_breaker_timers, consecutive_failures, pending_connections,
                   connection_semaphore, rate_limiter, task_pc, task_attempt,
                   task_wake, bringup_pc, bringup_batch, bringup_rest, window_connects, disconnecting>>
    /\ UNCHANGED <<otaVars, pubVars, sessVars, ptnVars, subsVars, monVars, shellVars, thrVars, verbVars, retVars, sweepVars>>

awaited_disconnects_all(clients) == clients

\* the disconnects that disconnect_all waits for: each one is handed to
\* asyncio.create_task and left alone
awaited_disconnects(clients) == {}

\* stop(): the loops are cancelled, then disconnect_all()
PoolStop ==
    /\ pool_life = "running"
    /\ NextCreated \in {0, 1}
    /\ pool_life' = IF awaited_disconnects(connections) = {}
                    THEN "stopped" ELSE "stopping"
    /\ disconnecting' = connections
    /\ IF connections = {}
       THEN UNCHANGED <<connections, connection_states>>
       ELSE /\ connections' = {}
            /\ connection_states' = EmptyMap
    /\ UNCHANGED <<config, pool_now, circuit_breaker_timers, consecutive_failures,
                   pending_connections, connection_semaphore, rate_limiter, task_pc,
                   task_attempt, task_wake, bringup_pc, bringup_batch, bringup_rest,
                   window_connects, health_last>>
    /\ UNCHANGED <<otaVars, pubVars, sessVars, ptnVars, subsVars, monVars, shellVars, thrVars, verbVars, retVars, sweepVars>>

DisconnectResults == {"ok", "error"}

\* what the task of _silent_disconnect ends with when the session's disconnect
\* ends with r: disconnect_async answers True after any exception, and
\* "except Exception: pass" covers the rest
silent_disconnect(r) == "done"

\* a _silent_disconnect task that disconnect_all spawned comes to its end (it
\* may never do so); a stop() that waited for it would resume here
SilentDisconnectReturn(n, r) ==
    /\ n \in disconnecting
    /\ disconnecting' = disconnecting \ {n}
    /\ pool_life' =
          IF pool_life = "stopping" /\ n \in awaited_disconnects(disconnecting)
          THEN IF silent_disconnect(r) # "done" THEN "stop_raised"
               ELSE IF awaited_disconnects(disconnecting \ {n}) = {}
                    THEN "stopped" ELSE "stopping"
          ELSE pool_life
    /\ UNCHANGED <<config, pool_now, connections, connection_states,
                   circuit_breaker_timers, consecutive_failures, pending_connections,
                   connection_semaphore, rate_limiter, task_pc, task_attempt,
                   task_wake, bringup_pc, bringup_batch, bringup_rest,
                   window_connects, health_last>>
    /\ UNCHANGED <<otaVars, pubVars, sessVars, ptnVars, subsVars, monVars, shellVars, thrVars, verbVars, retVars, sweepVars>>

\* _connect_batch(batch) up to its gather
StartBatch(batch, rest) ==
    LET r == connect_batch(connection_states, circuit_breaker_timers, batch, pool_now)
    IN /\ connection_states' = r.states
       /\ circuit_breaker_timers' = r.timers
       /\ bringup_batch' = r.tasks
       /\ bringup_rest' = rest
       /\ bringup_pc' = "gather"
       /\ task_pc' = [i \in TaskSlots |->
                        IF i \in DOMAIN r.tasks THEN "created" ELSE "none"]

FirstBatch(node_ids) ==
    IF config.batch_size > 0 /\ Len(node_ids) > config.batch_size
    THEN SubSeq(node_ids, 1, config.batch_size)
    ELSE node_ids

AfterFirstBatch(node_ids) ==
    IF config.batch_size > 0 /\ Len(node_ids) > config.batch_size
    THEN SubSeq(node_ids, config.batch_size + 1, Len(node_ids))
    ELSE <<>>

batch_successful_all(results, tasks) == Len(tasks)

\* what the gather of _connect_batch gives back: the number of results that
\* are True
batch_successful(results, tasks) ==
    Cardinality({i \in DOMAIN tasks : results[i] = "true"})

NoResults == [i \in TaskSlots |-> "none"]

\* the pair connect_nodes_batch returns when the gather of its last batch is back
connect_nodes_batch_return ==
    <<successful + batch_successful(task_result, bringup_batch), total_nodes>>

\* connect_nodes_batch(nodes) up to the gather of its first batch
BringUp(node_ids) ==
    /\ is_running
    /\ bringup_pc = "idle"
    /\ IF node_ids = <<>>
       THEN UNCHANGED <<connection_states, circuit_breaker_timers, bringup_batch,
                        bringup_rest, bringup_pc, task_pc>>
       ELSE StartBatch(FirstBatch(node_ids), AfterFirstBatch(node_ids))
    /\ UNCHANGED <<config, pool_life, pool_now, connections, consecutive_failures,
                   pending_connections, connection_semaphore, rate_limiter,
                   task_attempt, task_wake, window_connects, health_last, disconnecting>>
    /\ UNCHANGED <<otaVars, pubVars, sessVars, ptnVars, subsVars, monVars, shellVars, thrVars, verbVars, sweepVars>>
    /\ IF node_ids = <<>>
       THEN UNCHANGED retVars
       ELSE /\ successful' = 0
            /\ total_nodes' = Len(node_ids)
            /\ task_result' = NoResults
            /\ call_connected' = 0

\* the gather of the current batch returns
BatchDone ==
    /\ bringup_pc = "gather"
    /\ \A i \in DOMAIN bringup_batch : task_pc[i] = "done"
    /\ task_pc' = [i \in TaskSlots |-> "none"]
    /\ bringup_batch' = <<>>
    /\ bringup_pc' = IF bringup_rest = <<>> THEN "idle" ELSE "batch_sleep"
    /\ UNCHANGED <<config, pool_life, pool_now, connections, connection_states,
                   circuit_breaker_timers, consecutive_failures, pending_connections,
                   connection_semaphore, rate_limiter, task_attempt, task_wake,
                   bringup_rest, window_connects, health_last, disconnecting>>
    /\ UNCHANGED <<otaVars, pubVars, sessVars, ptnVars, subsVars, monVars, shellVars, thrVars, verbVars, sweepVars>>
    /\ task_result' = NoResults
    /\ IF bringup_rest = <<>>
       THEN /\ successful' = 0
            /\ total_nodes' = 0
            /\ call_connected' = 0
       ELSE /\ successful' = successful + batch_successful(task_result, bringup_batch)
            /\ UNCHANGED <<total_nodes, call_connected>>

\* asyncio.sleep(0.1) between two batches is over
NextBatch ==
    /\ bringup_pc = "batch_sleep"
    /\ StartBatch(FirstBatch(bringup_rest), AfterFirstBatch(bringup_rest))
    /\ UNCHANGED <<config, pool_life, pool_now, connections, consecutive_failures,
                   pending_connections, connection_semaphore, rate_limiter,
                   task_attempt, task_wake, window_connects, health_last, disconnecting>>
    /\ UNCHANGED <<otaVars, pubVars, sessVars, ptnVars, subsVars, monVars, shellVars, thrVars, verbVars, sweepVars>>
    /\ task_result' = NoResults
    /\ UNCHANGED <<successful, total_nodes, call_connected>>

\* _connect_single_node from the rate limiter on, and _do_connection up to the
\* await of its first connect: the task waits for a rate token, then for the
\* connection semaphore, and then marks the node Connecting
TaskProceed(i, states, need_rate) ==
    LET got_rate == ~need_rate \/ ~RateBounded \/ SemaphoreFree(rate_limiter)
        got_sem  == ~SemaphoreBounded \/ SemaphoreFree(connection_semaphore)
        stage    == IF ~got_rate THEN "wait_rate"
                    ELSE IF ~got_sem THEN "wait_sem" ELSE "connecting"
    IN /\ task_pc' = [task_pc EXCEPT ![i] = stage]
       /\ rate_limiter' = IF need_rate /\ RateBounded /\ got_rate
                          THEN rate_limiter - 1 ELSE rate_limiter
       /\ connection_semaphore' = IF stage = "connecting" /\ SemaphoreBounded
                                  THEN connection_semaphore - 1
                                  ELSE connection_semaphore
       /\ connection_states' = IF stage = "connecting"
                               THEN MapPut(states, NodeOf(i), Connecting) ELSE states
       /\ pending_connections' = IF stage = "connecting"
                                 THEN pending_connections \cup {NodeOf(i)}
                                 ELSE pending_connections
       /\ task_attempt' = [task_attempt EXCEPT ![i] = 0]
       /\ window_connects' = IF stage = "connecting"
                             THEN window_connects + 1 ELSE window_connects

\* task i of the gather runs for the first time (tasks of a gather start in order)
TaskStart(i) ==
    /\ i \in DOMAIN bringup_batch
    /\ task_pc[i] = "created"
    /\ i = NextCreated
    /\ LET sa == should_attempt_connection(connection_states, circuit_breaker_timers,
                                           NodeOf(i), pool_now)
       IN /\ circuit_breaker_timers' = sa.timers
          /\ IF sa.ok
             THEN TaskProceed(i, sa.states, TRUE)
             ELSE /\ task_pc' = [task_pc EXCEPT ![i] = "done"]
                  /\ connection_states' = sa.states
                  /\ UNCHANGED <<rate_limiter, connection_semaphore,
                                 pending_connections, task_attempt, window_connects>>
    /\ UNCHANGED <<config, pool_life, pool_now, connections, consecutive_failures,
                   task_wake, bringup_pc, bringup_batch, bringup_rest, health_last, disconnecting>>
    /\ UNCHANGED <<otaVars, pubVars, sessVars, ptnVars, subsVars, monVars, shellVars, thrVars, verbVars, sweepVars>>
    /\ task_result' = IF task_pc'[i] = "done"
                       THEN [task_result EXCEPT ![i] = "false"] ELSE task_result
    /\ UNCHANGED <<successful, total_nodes, call_connected>>

\* await self.rate_limiter.acquire() returns
AcquireRate(i) ==
    /\ i \in DOMAIN bringup_batch
    /\ task_pc[i] = "wait_rate"
    /\ GatherStarted
    /\ SemaphoreFree(rate_limiter)
    /\ TaskProceed(i, connection_states, TRUE)
    /\ UNCHANGED <<config, pool_life, pool_now, connections, circuit_breaker_timers,
                   consecutive_failures, task_wake, bringup_pc, bringup_batch,
                   bringup_rest, health_last, disconnecting>>
    /\ UNCHANGED <<otaVars, pubVars, sessVars, ptnVars, subsVars, monVars, shellVars, thrVars, verbVars, retVars, sweepVars>>

\* async with self.connection_semaphore is entered
AcquireSemaphore(i) ==
    /\ i \in DOMAIN bringup_batch
    /\ task_pc[i] = "wait_sem"
    /\ GatherStarted
    /\ SemaphoreFree(connection_semaphore)
    /\ TaskProceed(i, connection_states, FALSE)
    /\ UNCHANGED <<config, pool_life, pool_now, connections, circuit_breaker_timers,
                   consecutive_failures, task_wake, bringup_pc, bringup_batch,
                   bringup_rest, health_last, disconnecting>>
    /\ UNCHANGED <<otaVars, pubVars, sessVars, ptnVars, subsVars, monVars, shellVars, thrVars, verbVars, retVars, sweepVars>>

ConnectResults == {"connected", "refused", "timeout"}

\* the awaited connect_async of task i is back: True, or False / an exception,
\* or asyncio.TimeoutError; on the last attempt _do_connection returns and the
\* connection semaphore is released
ConnectReturn(i, r) ==
    /\ i \in DOMAIN bringup_batch
    /\ task_pc[i] = "connecting"
    /\ GatherStarted
    /\ LET failures  == consecutive_failures[NodeOf(i)] + 1
           threshold == failures >= config.circuit_breaker_threshold
           last      == ~(task_attempt[i] < config.max_retries - 1)
           released  == IF SemaphoreBounded THEN connection_semaphore + 1
                        ELSE connection_semaphore
       IN IF r = "connected"
          THEN /\ connections' = connections \cup {NodeOf(i)}
               /\ connection_states' = MapPut(connection_states, NodeOf(i), Connected)
               /\ consecutive_failures' = [consecutive_failures EXCEPT ![NodeOf(i)] = 0]
               /\ pending_connections' = pending_connections \ {NodeOf(i)}
               /\ connection_semaphore' = released
               /\ task_pc' = [task_pc EXCEPT ![i] = "done"]
               /\ task_attempt' = [task_attempt EXCEPT ![i] = 0]
               /\ UNCHANGED <<circuit_breaker_timers, task_wake>>
          ELSE /\ consecutive_failures' = [consecutive_failures EXCEPT ![NodeOf(i)] = failures]
               /\ IF threshold \/ last
                  THEN /\ connection_states' = MapPut(connection_states, NodeOf(i), CircuitOpen)
                       /\ circuit_breaker_timers' =
                              MapPut(circuit_breaker_timers, NodeOf(i), pool_now)
                  ELSE UNCHANGED <<connection_states, circuit_breaker_timers>>
               /\ IF last
                  THEN /\ pending_connections' = pending_connections \ {NodeOf(i)}
                       /\ connection_semaphore' = released
                       /\ task_pc' = [task_pc EXCEPT ![i] = "done"]
                       /\ task_attempt' = [task_attempt EXCEPT ![i] = 0]
                       /\ UNCHANGED task_wake
                  ELSE /\ task_pc' = [task_pc EXCEPT ![i] = "backoff"]
                       /\ task_wake' = [task_wake EXCEPT ![i] =
                                           pool_now + BackoffSeconds(task_attempt[i])]
                       /\ UNCHANGED <<pending_connections, connection_semaphore,
                                      task_attempt>>
               /\ UNCHANGED connections
    /\ UNCHANGED <<config, pool_life, pool_now, rate_limiter, bringup_pc,
                   bringup_batch, bringup_rest, window_connects, health_last, disconnecting>>
    /\ UNCHANGED <<otaVars, pubVars, sessVars, ptnVars, subsVars, monVars, shellVars, thrVars, verbVars, sweepVars>>
    /\ task_result' = IF task_pc'[i] # "done" THEN task_result
                       ELSE [task_result EXCEPT ![i] =
                                IF r = "connected" THEN "true" ELSE "false"]
    /\ call_connected' = IF r = "connected" THEN call_connected + 1
                          ELSE call_connected
    /\ UNCHANGED <<successful, total_nodes>>

\* the backoff sleep is over: the next attempt of the retry loop calls connect
BackoffOver(i) ==
    /\ i \in DOMAIN bringup_batch
    /\ task_pc[i] = "backoff"
    /\ GatherStarted
    /\ pool_now >= task_wake[i]
    /\ task_pc' = [task_pc EXCEPT ![i] = "connecting"]
    /\ task_attempt' = [task_attempt EXCEPT ![i] = task_attempt[i] + 1]
    /\ task_wake' = [task_wake EXCEPT ![i] = 0]
    /\ window_connects' = window_connects + 1
    /\ UNCHANGED <<config, pool_life, pool_now, connections, connection_states,
                   circuit_breaker_timers, consecutive_failures, pending_connections,
                   connection_semaphore, rate_limiter, bringup_pc, bringup_batch,
                   bringup_rest, health_last, disconnecting>>
    /\ UNCHANGED <<otaVars, pubVars, sessVars, ptnVars, subsVars, monVars, shellVars, thrVars, verbVars, retVars, sweepVars>>

health_probe_failed_keep(states, live, failed) ==
    [states |-> [n \in DOMAIN states \cup failed |->
                    IF n \in failed THEN Failed ELSE states[n]],
     connections |-> live]

\* _perform_health_checks for the nodes whose probe answers False:
\* connection_states[node_id] = FAILED and del self.connections[node_id]
health_probe_failed(states, live, failed) ==
    [states |-> [n \in DOMAIN states \cup failed |->
                    IF n \in failed THEN Failed ELSE states[n]],
     connections |-> live \ failed]

\* one turn of _health_check_loop: the probes of the nodes in failed answer
\* False (the pool holds fewer than 10 connections, so every one is probed)
HealthCheck(failed) ==
    /\ is_running
    /\ GatherStarted
    /\ pool_now - health_last >= config.health_check_interval
    /\ failed \subseteq connections
    /\ connections' = health_probe_failed(connection_states, connections, failed).connections
    /\ connection_states' = health_probe_failed(connection_states, connections, failed).states
    /\ health_last' = pool_now
    /\ UNCHANGED <<config, pool_life, pool_now, circuit_breaker_timers,
                   consecutive_failures, pending_connections, connection_semaphore,
                   rate_limiter, task_pc, task_attempt, task_wake, bringup_pc,
                   bringup_batch, bringup_rest, window_connects, disconnecting>>
    /\ UNCHANGED <<otaVars, pubVars, sessVars, ptnVars, subsVars, monVars, shellVars, thrVars, verbVars, retVars, sweepVars>>

reset_rate_limiter_skip(value) == value

\* one turn of _reset_rate_limiter: release() connection_rate_limit times
\* (Semaphore.release has no upper bound)
reset_rate_limiter(value) == value + config.connection_rate_limit

\* one second passes; while the pool runs, _reset_rate_limiter wakes up
PoolTick ==
    /\ pool_life \in {"running", "stopped"}
    /\ pool_now < MaxPoolTime
    /\ GatherStarted
    /\ pool_now' = pool_now + 1
    /\ rate_limiter' = IF is_running /\ RateBounded
                       THEN reset_rate_limiter(rate_limiter)
                       ELSE rate_limiter
    /\ window_connects' = 0
    /\ UNCHANGED <<config, pool_life, connections, connection_states,
                   circuit_breaker_timers, consecutive_failures, pending_connections,
                   connection_semaphore, task_pc, task_attempt, task_wake, bringup_pc,
                   bringup_batch, bringup_rest, health_last, disconnecting>>
    /\ UNCHANGED <<otaVars, pubVars, sessVars, ptnVars, subsVars, monVars, shellVars, thrVars, verbVars, retVars, sweepVars>>

PoolIdle ==
    /\ config = UnbuiltConfig
    /\ pool_life = "unbuilt"
    /\ pool_now = 0
    /\ connections = {}
    /\ connection_states = EmptyMap
    /\ circuit_breaker_timers = EmptyMap
    /\ consecutive_failures = [n \in PoolNodes \cup SeqRange(StartupNodes) |-> 0]
    /\ pending_connections = {}
    /\ connection_semaphore = 0
    /\ rate_limiter = 0
    /\ task_pc = [i \in TaskSlots |-> "none"]
    /\ task_attempt = [i \in TaskSlots |-> 0]
    /\ task_wake = [i \in TaskSlots |-> 0]
    /\ bringup_pc = "idle"
    /\ bringup_batch = <<>>
    /\ bringup_rest = <<>>
    /\ window_connects = 0
    /\ health_last = 0
    /\ disconnecting = {}
    /\ successful = 0
    /\ total_nodes = 0
    /\ task_result = [i \in TaskSlots |-> "none"]
    /\ call_connected = 0

NextPool ==
    \/ \E c \in PoolConfigs : PoolCreate(c)
    \/ PoolStart
    \/ PoolStop
    \/ \E node_ids \in BringUpInputs : BringUp(node_ids)
    \/ BatchDone
    \/ NextBatch
    \/ \E i \in TaskSlots : TaskStart(i)
    \/ \E i \in TaskSlots : AcquireRate(i)
    \/ \E i \in TaskSlots : AcquireSemaphore(i)
    \/ \E i \in TaskSlots, r \in ConnectResults : ConnectReturn(i, r)
    \/ \E i \in TaskSlots : BackoffOver(i)
    \/ \E failed \in SUBSET PoolNodes : HealthCheck(failed)
    \/ PoolTick
    \/ \E n \in PoolNodes, r \in DisconnectResults : SilentDisconnectReturn(n, r)

\* the pool of a start-up with three connection slots and two connects per
\* second; the other fields are the defaults of PoolConfig, times capped
BringUpConfig ==
    [max_concurrent_connections |-> 3, connection_rate_limit |-> 2, batch_size |-> 0,
     circuit_breaker_threshold |-> 3, circuit_breaker_timeout |-> 2,
     health_check_interval |-> 2, max_retries |-> 2]

\* what the event loop and the clock do on their own during a bring-up with a
\* reachable broker: ready tasks run, connects come back True, seconds pass
BringUpProgress ==
    \/ \E i \in TaskSlots : TaskStart(i)
    \/ \E i \in TaskSlots : AcquireRate(i)
    \/ \E i \in TaskSlots : AcquireSemaphore(i)
    \/ \E i \in TaskSlots : ConnectReturn(i, "connected")
    \/ BatchDone
    \/ PoolTick

\* connect_all_nodes of a start-up with five nodes: the pool is built and
\* started, then connect_nodes_batch(nodes)
NextBringUp ==
    \/ PoolCreate(BringUpConfig)
    \/ PoolStart
    \/ BringUp(StartupNodes)
    \/ BringUpProgress

(***************************************************************************)
(*                   RMNodeManager.publish_to_node                         *)
(*                                                                         *)
(* One call at a time is followed from its entry to its return.  What the  *)
(* pool and the session answer is an input of the step that asks.          *)
(***************************************************************************)
\* max_retries = 3 in publish_to_node
PtnMaxRetries == 3

\* what self.connections[node_id] finds: the node's client, or no such key
ManagerViews == {"client", "absent"}

PublishResults == {"true", "false", "raise"}

PoolViewByClient(states, node_id) ==
    IF node_id \in connections THEN "client" ELSE "absent"

\* self.connections of the manager, looked up for node_id: the property lists
\* the nodes get_connected_nodes() returns, those whose state is CONNECTED
PoolView(states, node_id) ==
    IF StateOf(states, node_id) = Connected THEN "client" ELSE "absent"

\* "if node_id not in self.connections: return False"
PtnRefused(view) == view = "absent"

\* "if attempt < max_retries - 1" in every failure branch
PtnRetriesLeft(attempt) == attempt < PtnMaxRetries - 1

PtnNextAttemptSame(attempt) == attempt

\* the loop variable of "for attempt in range(max_retries)" after one more turn
PtnNextAttempt(attempt) == attempt + 1

\* a failure branch of the loop: sleep and go on, or return False
PtnFail ==
    IF PtnRetriesLeft(ptn_attempt)
    THEN /\ ptn_pc' = "sleep"
         /\ UNCHANGED ptn_result
    ELSE /\ ptn_pc' = "returned"
         /\ ptn_result' = "false"

\* publish_to_node(node_id, ...) is called: the check of self.connections
PtnCall(node_id, view) ==
    /\ ptn_pc = "idle"
    /\ ptn_node' = node_id
    /\ ptn_entry' = view
    /\ ptn_attempt' = 0
    /\ ptn_publishes' = 0
    /\ ptn_reconnects' = 0
    /\ IF PtnRefused(view)
       THEN /\ ptn_pc' = "returned"
            /\ ptn_result' = "false"
       ELSE /\ ptn_pc' = "attempt"
            /\ ptn_result' = "none"
    /\ UNCHANGED <<otaVars, pubVars, sessVars, poolVars, subsVars, monVars, shellVars, thrVars, verbVars, retVars, sweepVars>>

\* one turn of the loop up to its await: is_connected(), reconnect() when the
\* session is not alive, then publish_async is called
PtnAttempt(view, alive, reconnected) ==
    /\ ptn_pc = "attempt"
    /\ IF view = "absent"
       THEN /\ PtnFail
            /\ UNCHANGED <<ptn_publishes, ptn_reconnects>>
       ELSE IF ~alive /\ ~reconnected
       THEN /\ PtnFail
            /\ ptn_reconnects' = ptn_reconnects + 1
            /\ UNCHANGED ptn_publishes
       ELSE /\ ptn_pc' = "publishing"
            /\ ptn_publishes' = ptn_publishes + 1
            /\ ptn_reconnects' = IF alive THEN ptn_reconnects ELSE ptn_reconnects + 1
            /\ UNCHANGED ptn_result
    /\ UNCHANGED <<ptn_node, ptn_entry, ptn_attempt>>
    /\ UNCHANGED <<otaVars, pubVars, sessVars, poolVars, subsVars, monVars, shellVars, thrVars, verbVars, retVars, sweepVars>>

\* publish_async is back: a true result, a false result or an exception
PtnPublishReturn(r) ==
    /\ ptn_pc = "publishing"
    /\ IF r = "true"
       THEN /\ ptn_pc' = "returned"
            /\ ptn_result' = "true"
       ELSE PtnFail
    /\ UNCHANGED <<ptn_node, ptn_entry, ptn_attempt, ptn_publishes, ptn_reconnects>>
    /\ UNCHANGED <<otaVars, pubVars, sessVars, poolVars, subsVars, monVars, shellVars, thrVars, verbVars, retVars, sweepVars>>

\* asyncio.sleep(retry_delay) is over: the next turn of the loop, or the
\* "return False" after the loop
PtnWake ==
    /\ ptn_pc = "sleep"
    /\ ptn_attempt' = PtnNextAttempt(ptn_attempt)
    /\ IF PtnNextAttempt(ptn_attempt) < PtnMaxRetries
       THEN /\ ptn_pc' = "attempt"
            /\ UNCHANGED ptn_result
       ELSE /\ ptn_pc' = "returned"
            /\ ptn_result' = "false"
    /\ UNCHANGED <<ptn_node, ptn_entry, ptn_publishes, ptn_reconnects>>
    /\ UNCHANGED <<otaVars, pubVars, sessVars, poolVars, subsVars, monVars, shellVars, thrVars, verbVars, retVars, sweepVars>>

\* the caller has the result; the next call can start
PtnDone ==
    /\ ptn_pc = "returned"
    /\ ptn_pc' = "idle"
    /\ ptn_result' = "none"
    /\ ptn_attempt' = 0
    /\ ptn_publishes' = 0
    /\ ptn_reconnects' = 0
    /\ UNCHANGED <<ptn_node, ptn_entry>>
    /\ UNCHANGED <<otaVars, pubVars, sessVars, poolVars, subsVars, monVars, shellVars, thrVars, verbVars, retVars, sweepVars>>

PtnIdle ==
    /\ ptn_pc = "idle"
    /\ ptn_node = "n1"
    /\ ptn_entry = "absent"
    /\ ptn_attempt = 0
    /\ ptn_publishes = 0
    /\ ptn_reconnects = 0
    /\ ptn_result = "none"

\* the steps of a running call
PtnProgress ==
    \/ \E view \in ManagerViews, alive \in BOOLEAN, reconnected \in BOOLEAN :
          PtnAttempt(view, alive, reconnected)
    \/ \E r \in PublishResults : PtnPublishReturn(r)
    \/ PtnWake

NextPublishToNode ==
    \/ \E node_id \in PoolNodes, view \in ManagerViews : PtnCall(node_id, view)
    \/ PtnProgress
    \/ PtnDone

\* the PoolConfig RMNodeManager.__init__ builds its pool with (times capped)
ManagerConfig ==
    [max_concurrent_connections |-> 0, connection_rate_limit |-> 0, batch_size |-> 0,
     circuit_breaker_threshold |-> 3, circuit_breaker_timeout |-> 2,
     health_check_interval |-> 2, max_retries |-> 2]

\* publish_to_node of a manager whose self.connections is the pool's view
PtnCallOnPool(node_id) ==
    PtnCall(node_id, PoolView(connection_states, node_id))

PtnAttemptOnPool(alive, reconnected) ==
    PtnAttempt(PoolView(connection_states, ptn_node), alive, reconnected)

\* the manager's pool with its bring-ups and health sweeps, and the publishes
\* of the shell's verbs
NextManager ==
    \/ PoolCreate(ManagerConfig)
    \/ PoolStart
    \/ \E node_ids \in BringUpInputs : BringUp(node_ids)
    \/ BatchDone
    \/ \E i \in TaskSlots : TaskStart(i)
    \/ \E i \in TaskSlots, r \in ConnectResults : ConnectReturn(i, r)
    \/ \E i \in TaskSlots : BackoffOver(i)
    \/ \E failed \in SUBSET PoolNodes : HealthCheck(failed)
    \/ PoolTick
    \/ \E node_id \in PoolNodes : PtnCallOnPool(node_id)
    \/ \E alive \in BOOLEAN, reconnected \in BOOLEAN : PtnAttemptOnPool(alive, reconnected)
    \/ \E r \in PublishResults : PtnPublishReturn(r)
    \/ PtnWake
    \/ PtnDone

(***************************************************************************)
(*        The shell's verbs that publish to a set of target nodes          *)
(*                                                                         *)
(* _node_params and _handle_fetch_core share one loop: for each target,    *)
(* await manager.publish_to_node(...), then success_count += 1.  The call  *)
(* of publish_to_node is the machine above; the verb waits for its return. *)
(***************************************************************************)
\* the nodes of S in discovery order
SeqOfSetOrdered(S) == LET in(x) == x \in S IN SelectSeq(NodeOrder, in)

\* topic suffixes of the two verbs
VerbNames == {"params/local", "otafetch"}

\* get_target_nodes(): the --node-id list, or the connected nodes
VerbTargetLists == { SeqOfSetOrdered(S) : S \in SUBSET PoolNodes } \ {<<>>}

\* the verb has its targets and enters its loop
VerbStart(name, nodes) ==
    /\ verb_pc = "idle"
    /\ ptn_pc = "idle"
    /\ verb_pc' = "loop"
    /\ verb_name' = name
    /\ verb_targets' = nodes
    /\ verb_total' = Len(nodes)
    /\ success_count' = 0
    /\ verb_true' = 0
    /\ UNCHANGED <<otaVars, pubVars, sessVars, poolVars, ptnVars, subsVars, monVars, shellVars, thrVars, retVars, sweepVars>>

\* one turn of the loop reaches "await self.manager.publish_to_node(...)"
VerbCall ==
    /\ verb_pc = "loop"
    /\ verb_targets # <<>>
    /\ ptn_pc = "idle"
    /\ verb_pc' = "calling"
    /\ UNCHANGED <<verb_name, verb_targets, verb_total, success_count, verb_true>>
    /\ UNCHANGED <<otaVars, pubVars, sessVars, poolVars, ptnVars, subsVars, monVars, shellVars, thrVars, retVars, sweepVars>>

\* publish_to_node starts for the current target
VerbPtnCall(view) ==
    /\ verb_pc = "calling"
    /\ PtnCall(Head(verb_targets), view)

\* "await self.manager.publish_to_node(...); success_count += 1": the value
\* the call returned is dropped
success_count_after(count, result) == count + 1

\* publish_to_node is back (it catches every exception, so the except branch
\* of the loop is never taken) and the turn ends
VerbResume ==
    /\ verb_pc = "calling"
    /\ ptn_pc = "returned"
    /\ success_count' = success_count_after(success_count, ptn_result)
    /\ verb_true' = IF ptn_result = "true" THEN verb_true + 1 ELSE verb_true
    /\ verb_targets' = Tail(verb_targets)
    /\ verb_pc' = "loop"
    /\ UNCHANGED <<verb_name, verb_total>>
    /\ UNCHANGED <<otaVars, pubVars, sessVars, poolVars, ptnVars, subsVars, monVars, shellVars, thrVars, retVars, sweepVars>>

\* the loop is over: "... on {success_count}/{len(nodes)} nodes" is printed
VerbReport ==
    /\ verb_pc = "loop"
    /\ verb_targets = <<>>
    /\ verb_pc' = "reported"
    /\ UNCHANGED <<verb_name, verb_targets, verb_total, success_count, verb_true>>
    /\ UNCHANGED <<otaVars, pubVars, sessVars, poolVars, ptnVars, subsVars, monVars, shellVars, thrVars, retVars, sweepVars>>

\* back at the prompt
VerbEnd ==
    /\ verb_pc = "reported"
    /\ verb_pc' = "idle"
    /\ UNCHANGED <<verb_name, verb_targets, verb_total, success_count, verb_true>>
    /\ UNCHANGED <<otaVars, pubVars, sessVars, poolVars, ptnVars, subsVars, monVars, shellVars, thrVars, retVars, sweepVars>>

\* the frame of publish_to_node is gone once the verb has read its return
VerbPtnDone ==
    /\ verb_pc # "calling"
    /\ PtnDone

VerbIdle ==
    /\ verb_pc = "idle"
    /\ verb_name = "otafetch"
    /\ verb_targets = <<>>
    /\ verb_total = 0
    /\ success_count = 0
    /\ verb_true = 0

NextVerb ==
    \/ \E name \in VerbNames, nodes \in VerbTargetLists : VerbStart(name, nodes)
    \/ VerbCall
    \/ \E view \in ManagerViews : VerbPtnCall(view)
    \/ PtnProgress
    \/ VerbResume
    \/ VerbPtnDone
    \/ VerbReport
    \/ VerbEnd

\* send-ota-status, one turn of its loop up to
\* "await self.manager.publish_to_node(node_id, topic, json.dumps(payload))"
SosCall ==
    /\ sos_pc = "loop"
    /\ ptn_pc = "idle"
    /\ sos_pc' = "calling"
    /\ UNCHANGED <<ota_jobs, ota_status_history, ota_now, sos_job_id, sos_targets>>
    /\ UNCHANGED <<pubVars, sessVars, poolVars, ptnVars, subsVars, monVars, shellVars, thrVars, verbVars, retVars, sweepVars>>

\* publish_to_node starts for the current target of send-ota-status
SosPtnCall(view) ==
    /\ sos_pc = "calling"
    /\ PtnCall(Head(sos_targets), view)

\* publish_to_node is back; its value is dropped, and since status is not
\* "in-progress" the job is moved to the history
SosResume ==
    /\ sos_pc = "calling"
    /\ ptn_pc = "returned"
    /\ LET node_id == Head(sos_targets)
           actual_job_id == ActualJobId(ota_jobs, node_id, sos_job_id)
           moved == move_ota_job_to_history(ota_jobs, ota_status_history,
                                            node_id, actual_job_id, SentOtaStatus, ota_now)
       IN IF MovesToHistory(SentOtaStatus)
          THEN /\ ota_jobs' = moved.jobs
               /\ ota_status_history' = moved.hist
          ELSE UNCHANGED <<ota_jobs, ota_status_history>>
    /\ sos_targets' = Tail(sos_targets)
    /\ sos_pc' = IF Tail(sos_targets) = <<>> THEN "idle" ELSE "loop"
    /\ sos_job_id' = IF Tail(sos_targets) = <<>> THEN None ELSE sos_job_id
    /\ UNCHANGED ota_now
    /\ UNCHANGED <<pubVars, sessVars, poolVars, ptnVars, subsVars, monVars, shellVars, thrVars, verbVars, retVars, sweepVars>>

\* the frame of publish_to_node is gone once send-ota-status has its return
SosPtnDone ==
    /\ sos_pc # "calling"
    /\ PtnDone

\* otaurl responses are stored, and send-ota-status publishes and moves
NextSendOtaStatus ==
    \/ \E n \in Nodes : \E r \in OtaResponses(n) : StoreOtaJob(n, r)
    \/ \E j \in JobIds \cup {None} : SendOtaStatusStart(j)
    \/ SosCall
    \/ \E view \in ManagerViews : SosPtnCall(view)
    \/ PtnProgress
    \/ SosResume
    \/ SosPtnDone

(***************************************************************************)
(*                    SelectiveSubscriptionManager                         *)
(*                                                                         *)
(* The manager's methods are synchronous: each call is one step.  A full   *)
(* topic "node_id/topic" is the pair <<node_id, topic>>; the subscriptions *)
(* the MQTT sessions hold are kept beside the manager's own books.         *)
(***************************************************************************)
MaxTopicsLen == 2

SubNodes == {"n1", "n2"}

SubTopics == {"a", "b"}

Priorities == {1, 2}

\* max_subscriptions: 0 stands for None (no cap)
SubCaps == {0, 2}

\* the topics argument of subscribe_node_topics
TopicLists == UNION { [1..k -> SubTopics] : k \in 0..MaxTopicsLen }

\* the manager's books and the sessions' subscriptions as one value
Manager ==
    [active |-> active_subscriptions, priority |-> subscription_priority,
     session |-> session_subscribed]

\* sum(len(topics) for topics in self.active_subscriptions.values())
TotalSubscriptions(active) ==
    Cardinality(UNION { {<<n, t>> : t \in active[n]} : n \in DOMAIN active })

\* self.active_subscriptions[node_id] of the defaultdict(set), without the insert
TopicsOf(active, node_id) == IF MapHas(active, node_id) THEN active[node_id] ELSE {}

\* sorted(self.subscription_priority.items(), key=lambda x: x[1]): a stable
\* sort, entries of equal priority stay in insertion order
RECURSIVE SortedFrom(_, _)
SortedFrom(d, p) ==
    LET has(e) == e.v >= p
        is(e)  == e.v = p
    IN IF SelectSeq(d, has) = <<>> THEN <<>>
       ELSE SelectSeq(d, is) \o SortedFrom(d, p + 1)

sorted_topics(d) == SortedFrom(d, 0)

\* the loop of _cleanup_low_priority_subscriptions over the entries it removes
RECURSIVE evict(_, _)
evict(m, victims) ==
    IF victims = <<>> THEN m
    ELSE LET node_id == Head(victims).k[1]
             topic   == Head(victims).k[2]
         IN evict([active   |-> MapPut(m.active, node_id,
                                       TopicsOf(m.active, node_id) \ {topic}),
                   priority |-> DictDel(m.priority, Head(victims).k),
                   session  |-> m.session],
                  Tail(victims))

\* _cleanup_low_priority_subscriptions(needed_slots)
cleanup_low_priority_subscriptions(m, needed_slots) ==
    LET sorted == sorted_topics(m.priority)
        count  == IF needed_slots < Len(sorted) THEN needed_slots ELSE Len(sorted)
    IN evict(m, SubSeq(sorted, 1, count))

\* the for loop of subscribe_node_topics from position i on; the subscribe of
\* the positions in fails raises
RECURSIVE subscribe_topics(_, _, _, _, _, _)
subscribe_topics(m, node_id, topics, priority, fails, i) ==
    IF i > Len(topics) THEN m
    ELSE IF i \in fails
         THEN subscribe_topics(m, node_id, topics, priority, fails, i + 1)
         ELSE subscribe_topics(
                  [active   |-> MapPut(m.active, node_id,
                                       TopicsOf(m.active, node_id) \cup {topics[i]}),
                   priority |-> DictPut(m.priority, <<node_id, topics[i]>>, priority),
                   session  |-> m.session \cup {<<node_id, topics[i]>>}],
                  node_id, topics, priority, fails, i + 1)

\* subscribe_node_topics(node_id, topics, mqtt_client, priority)
subscribe_node_topics(m, cap, node_id, topics, priority, fails) ==
    LET current_total == TotalSubscriptions(m.active)
        room == IF cap # 0 /\ current_total + Len(topics) > cap
                THEN cleanup_low_priority_subscriptions(m, Len(topics))
                ELSE m
    IN subscribe_topics(room, node_id, topics, priority, fails, 1)

\* subscription_priority.pop(full_topic, None) for every topic in done
RECURSIVE pop_all(_, _, _)
pop_all(d, node_id, done) ==
    IF done = {} THEN d
    ELSE LET t == CHOOSE x \in done : TRUE
         IN pop_all(DictDel(d, <<node_id, t>>), node_id, done \ {t})

\* unsubscribe_node(node_id, mqtt_client); the unsubscribe of the topics in
\* fails raises
unsubscribe_node(m, node_id, fails) ==
    IF MapHas(m.active, node_id)
    THEN LET done == m.active[node_id] \ fails
         IN [active   |-> MapDel(m.active, node_id),
             priority |-> pop_all(m.priority, node_id, done),
             session  |-> m.session \ {<<node_id, t>> : t \in done}]
    ELSE m

\* SelectiveSubscriptionManager(max_subscriptions)
SubsCreate(cap) ==
    /\ subs_life = "unbuilt"
    /\ subs_life' = "built"
    /\ max_subscriptions' = cap
    /\ UNCHANGED <<active_subscriptions, subscription_priority, session_subscribed>>
    /\ UNCHANGED <<otaVars, pubVars, sessVars, poolVars, ptnVars, monVars, shellVars, thrVars, verbVars, retVars, sweepVars>>

SubscribeNodeTopics(node_id, topics, priority, fails) ==
    /\ subs_life = "built"
    /\ fails \subseteq DOMAIN topics
    /\ \E m \in {subscribe_node_topics(Manager, max_subscriptions, node_id, topics,
                                       priority, fails)} :
          /\ active_subscriptions' = m.active
          /\ subscription_priority' = m.priority
          /\ session_subscribed' = m.session
    /\ UNCHANGED <<subs_life, max_subscriptions>>
    /\ UNCHANGED <<otaVars, pubVars, sessVars, poolVars, ptnVars, monVars, shellVars, thrVars, verbVars, retVars, sweepVars>>

UnsubscribeNode(node_id, fails) ==
    /\ subs_life = "built"
    /\ fails \subseteq TopicsOf(active_subscriptions, node_id)
    /\ \E m \in {unsubscribe_node(Manager, node_id, fails)} :
          /\ active_subscriptions' = m.active
          /\ subscription_priority' = m.priority
          /\ session_subscribed' = m.session
    /\ UNCHANGED <<subs_life, max_subscriptions>>
    /\ UNCHANGED <<otaVars, pubVars, sessVars, poolVars, ptnVars, monVars, shellVars, thrVars, verbVars, retVars, sweepVars>>

SubsIdle ==
    /\ subs_life = "unbuilt"
    /\ max_subscriptions = 0
    /\ active_subscriptions = EmptyMap
    /\ subscription_priority = EmptyDict
    /\ session_subscribed = {}

NextSubs ==
    \/ \E cap \in SubCaps : SubsCreate(cap)
    \/ \E node_id \in SubNodes, topics \in TopicLists, priority \in Priorities,
          fails \in SUBSET (1..MaxTopicsLen) :
          SubscribeNodeTopics(node_id, topics, priority, fails)
    \/ \E node_id \in SubNodes, fails \in SUBSET SubTopics :
          UnsubscribeNode(node_id, fails)

(***************************************************************************)
(*                           AdaptiveMonitor                               *)
(*                                                                         *)
(* One turn of _monitor_node_loop (_check_node_health, then                *)
(* _adjust_monitoring_level) has no await that suspends: it is one step.   *)
(***************************************************************************)
MaxSuccesses == 21

MaxErrors == 2

MonNodes == {"n1"}

\* max_concurrent_monitors: 0 means unlimited
MonitorCaps == {0, 1, 2}

\* class MonitoringLevel
CRITICAL == "critical"
HIGH     == "high"
NORMAL   == "normal"
LOW      == "low"
MINIMAL  == "minimal"

MonitoringLevels == {CRITICAL, HIGH, NORMAL, LOW, MINIMAL}

\* NodeMonitoringProfile(node_id, level=initial_level)
NodeMonitoringProfile(initial_level) ==
    [level |-> initial_level, error_count |-> 0, consecutive_successes |-> 0]

\* _check_node_health on a profile; inactive: time_since_activity > 300
check_node_health(profile, inactive) ==
    [profile EXCEPT
        !.level = IF inactive /\ profile.level # CRITICAL THEN HIGH ELSE profile.level,
        !.consecutive_successes = profile.consecutive_successes + 1]

\* the level _adjust_monitoring_level leaves
adjusted_level(profile) ==
    IF profile.error_count > 0
    THEN IF profile.consecutive_successes < 3 THEN HIGH
         ELSE IF profile.consecutive_successes >= 10
              THEN IF profile.level = HIGH THEN NORMAL
                   ELSE IF profile.level = NORMAL /\ profile.error_count = 0
                        THEN LOW ELSE profile.level
              ELSE profile.level
    ELSE profile.level

\* _adjust_monitoring_level(profile)
adjust_monitoring_level(profile) ==
    [profile EXCEPT
        !.level = adjusted_level(profile),
        !.error_count = IF profile.consecutive_successes >= 20
                        THEN IF profile.error_count - 1 > 0
                             THEN profile.error_count - 1 ELSE 0
                        ELSE profile.error_count]

\* AdaptiveMonitor(max_concurrent_monitors)
MonCreate(cap) ==
    /\ mon_life = "unbuilt"
    /\ mon_life' = "built"
    /\ max_concurrent_monitors' = cap
    /\ monitor_semaphore' = cap
    /\ UNCHANGED <<mon_running, node_profiles, active_monitors>>
    /\ UNCHANGED <<otaVars, pubVars, sessVars, poolVars, ptnVars, subsVars, shellVars, thrVars, verbVars, retVars, sweepVars>>

\* AdaptiveMonitor.start()
MonStart ==
    /\ mon_life = "built"
    /\ ~mon_running
    /\ mon_running' = TRUE
    /\ UNCHANGED <<node_profiles, active_monitors>>
    /\ UNCHANGED <<mon_life, max_concurrent_monitors, monitor_semaphore>>
    /\ UNCHANGED <<otaVars, pubVars, sessVars, poolVars, ptnVars, subsVars, shellVars, thrVars, verbVars, retVars, sweepVars>>

\* AdaptiveMonitor.stop()
MonStop ==
    /\ mon_life = "built"
    /\ mon_running
    /\ mon_running' = FALSE
    /\ active_monitors' = {}
    /\ UNCHANGED node_profiles
    /\ UNCHANGED <<mon_life, max_concurrent_monitors, monitor_semaphore>>
    /\ UNCHANGED <<otaVars, pubVars, sessVars, poolVars, ptnVars, subsVars, shellVars, thrVars, verbVars, retVars, sweepVars>>

\* the value of monitor_semaphore once the "async with self.monitor_semaphore"
\* block of _start_monitoring_node is left: the block adds the node to
\* active_monitors and creates the loop's task without an await, so the permit
\* it took is given back in the same step
semaphore_after_start(value) == (value - 1) + 1

\* add_node(node_id, initial_level) and the _start_monitoring_node task it
\* spawns; with a semaphore the task needs a free permit to go on
AddNode(node_id, initial_level) ==
    /\ mon_life = "built"
    /\ max_concurrent_monitors > 0 => monitor_semaphore > 0
    /\ node_profiles' = MapPut(node_profiles, node_id,
                               NodeMonitoringProfile(initial_level))
    /\ active_monitors' = IF mon_running THEN active_monitors \cup {node_id}
                          ELSE active_monitors
    /\ monitor_semaphore' = semaphore_after_start(monitor_semaphore)
    /\ UNCHANGED mon_running
    /\ UNCHANGED <<mon_life, max_concurrent_monitors>>
    /\ UNCHANGED <<otaVars, pubVars, sessVars, poolVars, ptnVars, subsVars, shellVars, thrVars, verbVars, retVars, sweepVars>>

\* remove_node(node_id)
RemoveNode(node_id) ==
    /\ mon_life = "built"
    /\ MapHas(node_profiles, node_id)
    /\ node_profiles' = MapDel(node_profiles, node_id)
    /\ active_monitors' = active_monitors \ {node_id}
    /\ UNCHANGED mon_running
    /\ UNCHANGED <<mon_life, max_concurrent_monitors, monitor_semaphore>>
    /\ UNCHANGED <<otaVars, pubVars, sessVars, poolVars, ptnVars, subsVars, shellVars, thrVars, verbVars, retVars, sweepVars>>

\* update_node_level(node_id, new_level)
UpdateNodeLevel(node_id, new_level) ==
    /\ mon_life = "built"
    /\ MapHas(node_profiles, node_id)
    /\ node_profiles' = [node_profiles EXCEPT ![node_id].level = new_level]
    /\ UNCHANGED <<mon_running, active_monitors>>
    /\ UNCHANGED <<mon_life, max_concurrent_monitors, monitor_semaphore>>
    /\ UNCHANGED <<otaVars, pubVars, sessVars, poolVars, ptnVars, subsVars, shellVars, thrVars, verbVars, retVars, sweepVars>>

\* one turn of _monitor_node_loop(node_id)
MonitorTurn(node_id, inactive) ==
    /\ mon_life = "built"
    /\ mon_running
    /\ node_id \in active_monitors
    /\ MapHas(node_profiles, node_id)
    /\ node_profiles[node_id].consecutive_successes < MaxSuccesses
    /\ node_profiles' =
          [node_profiles EXCEPT ![node_id] =
              adjust_monitoring_level(check_node_health(node_profiles[node_id],
                                                        inactive))]
    /\ UNCHANGED <<mon_running, active_monitors>>
    /\ UNCHANGED <<mon_life, max_concurrent_monitors, monitor_semaphore>>
    /\ UNCHANGED <<otaVars, pubVars, sessVars, poolVars, ptnVars, subsVars, shellVars, thrVars, verbVars, retVars, sweepVars>>

\* record_node_activity(node_id, "successful_operation")
RecordNodeActivity(node_id) ==
    /\ mon_life = "built"
    /\ MapHas(node_profiles, node_id)
    /\ node_profiles[node_id].consecutive_successes < MaxSuccesses
    /\ node_profiles' =
          [node_profiles EXCEPT ![node_id].consecutive_successes = @ + 1]
    /\ UNCHANGED <<mon_running, active_monitors>>
    /\ UNCHANGED <<mon_life, max_concurrent_monitors, monitor_semaphore>>
    /\ UNCHANGED <<otaVars, pubVars, sessVars, poolVars, ptnVars, subsVars, shellVars, thrVars, verbVars, retVars, sweepVars>>

record_node_error_keep_successes(profiles, node_id) ==
    IF MapHas(profiles, node_id)
    THEN [profiles EXCEPT ![node_id] =
             [level |-> CRITICAL, error_count |-> @.error_count + 1,
              consecutive_successes |-> @.consecutive_successes]]
    ELSE profiles

\* record_node_error(node_id): the profiles after the call
record_node_error(profiles, node_id) ==
    IF MapHas(profiles, node_id)
    THEN [profiles EXCEPT ![node_id] =
             [level |-> CRITICAL, error_count |-> @.error_count + 1,
              consecutive_successes |-> 0]]
    ELSE profiles

\* record_node_error(node_id), for a monitored or an unknown node
RecordNodeError(node_id) ==
    /\ mon_life = "built"
    /\ MapHas(node_profiles, node_id) => node_profiles[node_id].error_count < MaxErrors
    /\ node_profiles' = record_node_error(node_profiles, node_id)
    /\ UNCHANGED <<mon_running, active_monitors>>
    /\ UNCHANGED <<mon_life, max_concurrent_monitors, monitor_semaphore>>
    /\ UNCHANGED <<otaVars, pubVars, sessVars, poolVars, ptnVars, subsVars, shellVars, thrVars, verbVars, retVars, sweepVars>>

MonIdle ==
    /\ mon_life = "unbuilt"
    /\ max_concurrent_monitors = 0
    /\ monitor_semaphore = 0
    /\ mon_running = FALSE
    /\ node_profiles = EmptyMap
    /\ active_monitors = {}

NextMonitor ==
    \/ \E cap \in MonitorCaps : MonCreate(cap)
    \/ MonStart
    \/ MonStop
    \/ \E node_id \in MonNodes, initial_level \in MonitoringLevels :
          AddNode(node_id, initial_level)
    \/ \E node_id \in MonNodes : RemoveNode(node_id)
    \/ \E node_id \in MonNodes, new_level \in MonitoringLevels :
          UpdateNodeLevel(node_id, new_level)
    \/ \E node_id \in MonNodes, inactive \in BOOLEAN : MonitorTurn(node_id, inactive)
    \/ \E node_id \in MonNodes : RecordNodeActivity(node_id)
    \/ \E node_id \in MonNodes : RecordNodeError(node_id)

\* the nodes of the runs that look at how many monitoring loops run at once
MonSlotNodes == {"n1", "n2", "n3"}

\* the calls that start and end monitoring loops (the turns of a loop do not
\* change which loops run)
NextMonitorSlots ==
    \/ \E cap \in MonitorCaps : MonCreate(cap)
    \/ MonStart
    \/ MonStop
    \/ \E node_id \in MonSlotNodes, initial_level \in MonitoringLevels :
          AddNode(node_id, initial_level)
    \/ \E node_id \in MonSlotNodes : RemoveNode(node_id)

(***************************************************************************)
(*          Start-up and the interactive shell's session book              *)
(*                                                                         *)
(* active_config.json and config_history.json are written through at every *)
(* update, so each file and its in-memory copy are one variable.  A        *)
(* command of the shell runs to its end before the next prompt.            *)
(***************************************************************************)
MaxSessions == 2

ShellNodes == <<"n1", "n2">>

\* the nodes of order that are in S, in that order
SeqOfSet(order, S) ==
    LET in(x) == x \in S IN SelectSeq(order, in)

\* "if i < 20" / "elif i < 40" in _start_optimized_monitoring
HighSeeds == 20

NormalSeeds == 40

\* the level _start_optimized_monitoring gives the node at index i (from 0)
seed_level(i) ==
    IF i < HighSeeds THEN HIGH
    ELSE IF i < NormalSeeds THEN NORMAL ELSE LOW

\* node_profiles after the add_node calls of _start_optimized_monitoring
seeded_profiles(connected_nodes) ==
    [n \in SeqRange(connected_nodes) |->
        NodeMonitoringProfile(
            seed_level((CHOOSE i \in DOMAIN connected_nodes : connected_nodes[i] = n) - 1))]

\* _update_active_session(node_id, "connect") for every node of nodes
active_connect(active, nodes) ==
    [n \in DOMAIN active \cup nodes |->
        IF n \in nodes THEN [status |-> "connected", disconnected_at |-> FALSE]
        ELSE active[n]]

\* _update_active_session(node_id, "disconnect") for every node of nodes
active_disconnect(active, nodes) ==
    [n \in DOMAIN active |->
        IF n \in nodes THEN [status |-> "disconnected", disconnected_at |-> TRUE]
        ELSE active[n]]

\* _update_connection_history(node_id, action) for every node of nodes
history_append(history, nodes, action) ==
    [n \in DOMAIN history \cup nodes |->
        IF n \in nodes
        THEN Append(IF n \in DOMAIN history THEN history[n] ELSE <<>>, action)
        ELSE history[n]]

\* main up to the shell: a new process builds the manager, connect_all_nodes
\* discovers nodes, the pool connects those of connected, and
\* _start_optimized_monitoring seeds the monitor; with no node connected the
\* process exits
ConnectAllNodes(nodes, connected) ==
    /\ shell_pc \in {"none", "ended"}
    /\ shell_sessions < MaxSessions
    /\ connected \subseteq SeqRange(nodes)
    /\ shell_sessions' = shell_sessions + 1
    /\ IF connected = {}
       THEN /\ shell_pc' = "none"
            /\ shell_connected' = <<>>
            /\ mon_life' = "built"
            /\ mon_running' = FALSE
            /\ node_profiles' = EmptyMap
            /\ active_monitors' = {}
       ELSE /\ shell_pc' = "connected"
            /\ shell_connected' = SeqOfSet(nodes, connected)
            /\ mon_life' = "built"
            /\ mon_running' = TRUE
            /\ node_profiles' = seeded_profiles(SeqOfSet(nodes, connected))
            /\ active_monitors' = connected
    /\ max_concurrent_monitors' = 0
    /\ monitor_semaphore' = 0
    /\ shell_disconnecting' = {}
    /\ UNCHANGED <<active_nodes, connection_history>>
    /\ UNCHANGED <<otaVars, pubVars, sessVars, poolVars, ptnVars, subsVars, thrVars, verbVars, retVars, sweepVars>>

\* start_interactive_shell: PersistentShell.__init__ truncates the active
\* session, run() tracks the nodes connected at that moment
StartInteractiveShell ==
    /\ shell_pc = "connected"
    /\ shell_pc' = "prompt"
    /\ active_nodes' = active_connect(EmptyMap, SeqRange(shell_connected))
    /\ connection_history' =
          history_append(connection_history, SeqRange(shell_connected), "connected")
    /\ UNCHANGED <<shell_connected, shell_sessions, shell_disconnecting>>
    /\ UNCHANGED <<otaVars, pubVars, sessVars, poolVars, ptnVars, subsVars, monVars, thrVars, verbVars, retVars, sweepVars>>

\* _handle_disconnect(args) with no "--node-id <value>" in args:
\* manager.disconnect_all_nodes() spawns the disconnect of every client; the
\* pool still lists the nodes until a health sweep
HandleDisconnectAll ==
    /\ shell_pc = "prompt"
    /\ shell_connected # <<>>
    /\ shell_disconnecting' = shell_disconnecting \cup SeqRange(shell_connected)
    /\ UNCHANGED <<shell_pc, shell_sessions, shell_connected, active_nodes,
                   connection_history>>
    /\ UNCHANGED <<otaVars, pubVars, sessVars, poolVars, ptnVars, subsVars, monVars, thrVars, verbVars, retVars, sweepVars>>

\* _execute_command("disconnect") and, with flagged,
\* _execute_command("disconnect --node-id <node_ids>"): the first pass takes
\* "--node-id" and its value out of the command line, _parse_node_ids
\* accepts connected nodes only (the command ends there otherwise), the set
\* goes to self.target_node_ids, and the handler gets the remaining args
ExecuteDisconnect(flagged, node_ids) ==
    /\ IF flagged THEN node_ids \subseteq SeqRange(shell_connected)
       ELSE node_ids = {}
    /\ HandleDisconnectAll

\* the pool's health sweep finds the client of a node disconnected and drops it
ShellNodeLost(node_id) ==
    /\ shell_pc = "prompt"
    /\ node_id \in shell_disconnecting \cap SeqRange(shell_connected)
    /\ shell_connected' = SeqOfSet(shell_connected, SeqRange(shell_connected) \ {node_id})
    /\ shell_disconnecting' = shell_disconnecting \ {node_id}
    /\ UNCHANGED <<shell_pc, shell_sessions, active_nodes, connection_history>>
    /\ UNCHANGED <<otaVars, pubVars, sessVars, poolVars, ptnVars, subsVars, monVars, thrVars, verbVars, retVars, sweepVars>>

\* "exit" / "quit": disconnect_all_nodes() if a node is connected, then
\* _clear_active_session(), and the loop of run() ends
HandleExit ==
    /\ shell_pc = "prompt"
    /\ shell_pc' = "ended"
    /\ shell_disconnecting' = shell_disconnecting \cup SeqRange(shell_connected)
    /\ active_nodes' = EmptyMap
    /\ UNCHANGED <<shell_sessions, shell_connected, connection_history>>
    /\ UNCHANGED <<otaVars, pubVars, sessVars, poolVars, ptnVars, subsVars, monVars, thrVars, verbVars, retVars, sweepVars>>

\* input() raises EOFError or KeyboardInterrupt: run() breaks out of its loop
\* and stops the background tasks
EndOfInput ==
    /\ shell_pc = "prompt"
    /\ shell_pc' = "ended"
    /\ UNCHANGED <<shell_sessions, shell_connected, shell_disconnecting, active_nodes,
                   connection_history>>
    /\ UNCHANGED <<otaVars, pubVars, sessVars, poolVars, ptnVars, subsVars, monVars, thrVars, verbVars, retVars, sweepVars>>

ShellIdle ==
    /\ shell_pc = "none"
    /\ shell_sessions = 0
    /\ shell_connected = <<>>
    /\ shell_disconnecting = {}
    /\ active_nodes = EmptyMap
    /\ connection_history = EmptyMap

\* the node lists discovery can give, as subsequences of order
NodeLists(order) == { SeqOfSet(order, S) : S \in SUBSET SeqRange(order) }

\* start-up of the program with up to five nodes
NextStartup ==
    \/ \E nodes \in NodeLists(StartupNodes), connected \in SUBSET SeqRange(StartupNodes) :
          ConnectAllNodes(nodes, connected)
    \/ StartInteractiveShell

\* sessions of the shell with two nodes
NextShell ==
    \/ \E nodes \in NodeLists(ShellNodes), connected \in SUBSET SeqRange(ShellNodes) :
          ConnectAllNodes(nodes, connected)
    \/ StartInteractiveShell
    \/ \E flagged \in BOOLEAN, node_ids \in SUBSET SeqRange(ShellNodes) :
          ExecuteDisconnect(flagged, node_ids)
    \/ \E node_id \in SeqRange(ShellNodes) : ShellNodeLost(node_id)
    \/ HandleExit
    \/ EndOfInput

(***************************************************************************)
(*              The health sweep of a pool with many connections           *)
(*                                                                         *)
(* The pool model above holds two nodes, fewer than a sweep probes.  Here   *)
(* the pool holds up to eleven connections; only the order of the keys of  *)
(* connections, the Failed marks and the probes are kept.  Nodes connect   *)
(* in the order of the list, and a sweep finds at most one session down.   *)
(***************************************************************************)
\* "check_batch_size = min(10, len(self.connections))"
HealthBatch == 10

SweepNodes == <<"n1", "n2", "n3", "n4", "n5", "n6", "n7", "n8", "n9", "n10", "n11">>

\* "nodes_to_check = list(self.connections.keys())[:check_batch_size]"
nodes_to_check(keys) ==
    LET check_batch_size == IF HealthBatch < Len(keys) THEN HealthBatch ELSE Len(keys)
    IN SubSeq(keys, 1, check_batch_size)

\* _do_connection stores the session of the next node of the list:
\* "self.connections[node_id] = mqtt_client" puts a new key last
SweepConnect ==
    /\ Len(sweep_connections) + Cardinality(sweep_failed) < Len(SweepNodes)
    /\ sweep_connections' =
          Append(sweep_connections,
                 SweepNodes[Len(sweep_connections) + Cardinality(sweep_failed) + 1])
    /\ UNCHANGED <<sweep_failed, sweep_probed, sweep_parity>>
    /\ UNCHANGED <<otaVars, pubVars, sessVars, poolVars, ptnVars, subsVars, monVars, shellVars, thrVars, verbVars, retVars>>

\* _perform_health_checks: the sessions of the nodes in failed answer False
\* to is_connected_async
PerformHealthChecks(failed) ==
    /\ sweep_connections # <<>>
    /\ failed \subseteq SeqRange(nodes_to_check(sweep_connections))
    /\ sweep_probed' = sweep_probed \cup SeqRange(nodes_to_check(sweep_connections))
    /\ sweep_failed' = sweep_failed \cup failed
    /\ sweep_connections' =
          SeqOfSet(sweep_connections, SeqRange(sweep_connections) \ failed)
    /\ sweep_parity' = 1 - sweep_parity
    /\ UNCHANGED <<otaVars, pubVars, sessVars, poolVars, ptnVars, subsVars, monVars, shellVars, thrVars, verbVars, retVars>>

\* the step of _health_check_loop, which sweeps every health_check_interval
\* seconds while the pool runs
HealthCheckLoop ==
    \E failed \in {{}} \cup {{n} : n \in SeqRange(SweepNodes)} : PerformHealthChecks(failed)

SweepIdle ==
    /\ sweep_connections = <<>>
    /\ sweep_failed = {}
    /\ sweep_probed = {}
    /\ sweep_parity = 0

NextSweep ==
    \/ SweepConnect
    \/ HealthCheckLoop

(***************************************************************************)
(*                   CLAIMS ABOUT THE CONNECTION POOL                      *)
(***************************************************************************)
\* C1: with connection_rate_limit > 0, the number of connect() calls the pool
\* initiates within one second (first attempts and retries of all nodes)
\* never exceeds connection_rate_limit, whatever the bring-up input and
\* however long the pool was idle before the bring-up.
C1_ConnectsPerSecondWithinRateLimit ==
    RateBounded => window_connects <= config.connection_rate_limit

\* C2: with max_concurrent_connections > 0, the number of nodes that are
\* inside _do_connection at the same time (attempts, retries and backoff)
\* never exceeds max_concurrent_connections.
C2_InFlightWithinConcurrencyCap ==
    SemaphoreBounded =>
        Cardinality(InDoConnection) <= config.max_concurrent_connections

\* C2 witness: batch_size = 0 and connection_rate_limit = 0, the cap is
\* reached and a further node of the bring-up waits for the semaphore
C2_Witness ==
    /\ SemaphoreBounded
    /\ config.batch_size = 0
    /\ config.connection_rate_limit = 0
    /\ Cardinality(InDoConnection) = config.max_concurrent_connections
    /\ \E i \in TaskSlots : task_pc[i] = "wait_sem"

\* C11: connect attempts for one node are strictly serialized: no two tasks
\* have a connect attempt in flight for the same node_id, also when the
\* bring-up input lists a node_id twice.
C11_ConnectsOfOneNodeSerialized ==
    \A i \in DOMAIN bringup_batch : \A j \in DOMAIN bringup_batch :
        (i # j /\ NodeOf(i) = NodeOf(j)) =>
            ~(task_pc[i] = "connecting" /\ task_pc[j] = "connecting")

\* the breaker of node n is open and its timeout has not elapsed
BreakerHolds(n) ==
    /\ StateOf(connection_states, n) = CircuitOpen
    /\ MapHas(circuit_breaker_timers, n)
    /\ pool_now - circuit_breaker_timers[n] <= config.circuit_breaker_timeout

\* a step in which the pool initiates a connect attempt for node n
InitiatesConnect(n) ==
    \E i \in DOMAIN bringup_batch :
        /\ bringup_batch[i] = n
        /\ task_pc[i] # "connecting"
        /\ task_pc'[i] = "connecting"

\* C3: while the breaker of a node is open and circuit_breaker_timeout has not
\* elapsed since it opened, the pool initiates no connect attempt for that
\* node, neither as a retry of the running bring-up nor in a later bring-up.
C3_NoAttemptWhileBreakerOpen ==
    [][ \A n \in PoolNodes : InitiatesConnect(n) => ~BreakerHolds(n) ]_vars

\* the state changes of section 4.3 other than the shutdown
SessionTransitions ==
    { <<Disconnected, Connecting>>, <<Connecting, Connected>>,
      <<Connecting, Failed>>, <<Failed, Connecting>>, <<Failed, CircuitOpen>>,
      <<CircuitOpen, Disconnected>>, <<Connected, Failed>> }

\* C4: the state of every node is one of the five ConnectionState values, and
\* every change of it is one of the transitions of section 4.3 or a change to
\* Disconnected made by the shutdown; no node goes Connected -> Connecting.
C4_StateChangesFollowTransitions ==
    [][ \A n \in PoolNodes :
          /\ StateOf(connection_states, n)' \in ConnectionStates
          /\ StateOf(connection_states, n)' # StateOf(connection_states, n) =>
                \/ <<StateOf(connection_states, n), StateOf(connection_states, n)'>>
                       \in SessionTransitions
                \/ /\ StateOf(connection_states, n)' = Disconnected
                   /\ pool_life = "running"
                   /\ pool_life' = "stopped"
      ]_vars

\* C13: while the breaker of a node is open and its timeout has not elapsed,
\* publish_to_node for that node is refused at its entry check: it returns
\* failure before any is_connected, reconnect or publish call is made.
C13_PublishRefusedWhileBreakerOpen ==
    \A n \in PoolNodes :
        BreakerHolds(n) => PtnRefused(PoolView(connection_states, n))

\* C13 witness: the breaker of a node is open although the pool still holds a
\* client for it
C13_Witness ==
    \E n \in PoolNodes : BreakerHolds(n) /\ n \in connections

\* C14: when the probe of a node fails in a health sweep, the node's state
\* becomes Failed and the node leaves the live-connections map; the sweep
\* and the rate limiter refill (the pool's background tasks) start no connect
\* attempt and move no bring-up task: a connect attempt for a node is only
\* ever started by a task that a bring-up call created for it.
C14_HealthFailureMarksFailedWithoutReconnect ==
    [][ /\ \A failed \in SUBSET PoolNodes :
              HealthCheck(failed) =>
                  /\ \A n \in failed : /\ StateOf(connection_states, n)' = Failed
                                       /\ n \notin connections'
                  /\ \A n \in PoolNodes : ~InitiatesConnect(n)
                  /\ UNCHANGED <<task_pc, window_connects>>
        /\ PoolTick => /\ \A n \in PoolNodes : ~InitiatesConnect(n)
                       /\ UNCHANGED task_pc
        /\ window_connects' > window_connects =>
              /\ bringup_pc = "gather"
              /\ \E n \in SeqRange(bringup_batch) : InitiatesConnect(n)
      ]_vars

\* C14 witness: a health sweep has marked a node Failed and dropped its
\* connection, and no bring-up is running
C14_Witness ==
    /\ is_running
    /\ bringup_pc = "idle"
    /\ \E n \in PoolNodes : StateOf(connection_states, n) = Failed /\ n \notin connections

\* C15: once stop() has returned, the live-connections map is empty and every
\* node's session state reads Disconnected, whatever state the pool was
\* stopped in, and both stay so afterwards.
C15_StoppedPoolIsEmptyAndDisconnected ==
    pool_life = "stopped" =>
        /\ connections = {}
        /\ \A n \in PoolNodes : StateOf(connection_states, n) = Disconnected

\* C16: shutdown never waits for a session's disconnect and no disconnect
\* failure reaches the caller of stop(): stop() is never left suspended on a
\* pending disconnect and never ends with an exception, whether the spawned
\* disconnects return, fail or never return.
C16_StopNeverWaitsForDisconnect ==
    /\ pool_life \notin {"stopping", "stop_raised"}
    /\ disconnecting # {} => pool_life = "stopped"

\* C16 witness: stop() has returned while a spawned disconnect is still pending
C16_Witness ==
    /\ pool_life = "stopped"
    /\ disconnecting # {}

(***************************************************************************)
(*                    CLAIMS ABOUT publish_to_node                         *)
\* C26: with a reachable broker, max_concurrent_connections = 3 and
\* connection_rate_limit = 2, a bring-up of 5 nodes terminates with all 5
\* nodes Connected: every task of the gather gets its rate token and its
\* connection slot in the end, the tokens being refilled once per second.
C26_BringUpOfFiveConnectsAll ==
    (bringup_pc = "gather" /\ config = BringUpConfig)
        ~> ( /\ bringup_pc = "idle"
             /\ connections = SeqRange(StartupNodes)
             /\ \A n \in SeqRange(StartupNodes) :
                   StateOf(connection_states, n) = Connected )

\* the bring-up of the five nodes is over, all are connected, and it took a
\* refill of the rate limiter to get there
C26_Witness ==
    /\ config = BringUpConfig
    /\ bringup_pc = "idle"
    /\ connections = SeqRange(StartupNodes)
    /\ pool_now >= 1
    /\ rate_limiter < (pool_now + 1) * config.connection_rate_limit

\* the breaker of node n is open and its timeout has passed
BreakerExpired(n) ==
    /\ StateOf(connection_states, n) = CircuitOpen
    /\ MapHas(circuit_breaker_timers, n)
    /\ pool_now - circuit_breaker_timers[n] > config.circuit_breaker_timeout

\* what _connect_batch has done for the nodes of batch whose breaker had
\* expired: the node is Disconnected, its timer is gone, it has a task
BreakerReset(batch) ==
    \A n \in SeqRange(batch) :
        BreakerExpired(n) =>
            /\ StateOf(connection_states', n) = Disconnected
            /\ ~MapHas(circuit_breaker_timers', n)
            /\ n \in SeqRange(bringup_batch')

\* C33: when a node is CircuitOpen and more than circuit_breaker_timeout has
\* elapsed since its breaker opened, the next bring-up that includes the node
\* (the call, or the batch of the call the node is in) moves it to
\* Disconnected, and the task made for it is not turned away when it runs:
\* it goes for its rate token and slot and starts the connect (a task is
\* turned away only when the node is already Connecting or Connected).
C33_ExpiredBreakerIsRetried ==
    [][ /\ (bringup_pc = "idle" /\ bringup_pc' = "gather") =>
              \A node_ids \in BringUpInputs :
                  BringUp(node_ids) => BreakerReset(FirstBatch(node_ids))
        /\ NextBatch => BreakerReset(FirstBatch(bringup_rest))
        /\ \A i \in DOMAIN bringup_batch :
              TaskStart(i) =>
                  \/ task_pc'[i] \in {"wait_rate", "wait_sem"}
                  \/ /\ task_pc'[i] = "connecting"
                     /\ StateOf(connection_states', NodeOf(i)) = Connecting
                  \/ StateOf(connection_states, NodeOf(i)) \in {Connecting, Connected}
      ]_vars

\* the first connect of a bring-up is under way for a node that failed before
\* and whose breaker timer has been taken away on expiry
C33_Witness ==
    \E i \in DOMAIN bringup_batch :
        /\ task_pc[i] = "connecting"
        /\ task_attempt[i] = 0
        /\ consecutive_failures[NodeOf(i)] > 0
        /\ ~MapHas(circuit_breaker_timers, NodeOf(i))
        /\ \A j \in DOMAIN bringup_batch : j # i => bringup_batch[j] # NodeOf(i)

\* C36: in every reachable pool state a node is in the live-connections map
\* if and only if its state is Connected, so every node returned by
\* get_connected_nodes has a session object in the map.
C36_ConnectionsExactlyConnected ==
    \A n \in PoolNodes :
        n \in connections <=> StateOf(connection_states, n) = Connected

\* C37: a node is in pending_connections exactly while a connect attempt
\* sequence for it is in flight, and once connect_nodes_batch has returned no
\* node is left Connecting.
C37_PendingExactlyInFlight ==
    /\ \A n \in PoolNodes :
          n \in pending_connections
              <=> \E i \in InDoConnection : i \in DOMAIN bringup_batch /\ NodeOf(i) = n
    /\ bringup_pc = "idle" =>
          \A n \in PoolNodes : StateOf(connection_states, n) # Connecting

\* with batch_size > 0 a gather holds at most batch_size tasks, taken from the
\* front of what is left of the input, and nothing but them is being connected
GroupsOfBatchSize ==
    config.batch_size > 0 =>
        /\ Len(bringup_batch') <= config.batch_size
        /\ Cardinality(InDoConnection') <= config.batch_size
        /\ InDoConnection' \subseteq DOMAIN bringup_batch'
        /\ NextBatch =>
              /\ \A n \in SeqRange(bringup_batch') :
                    n \in SeqRange(FirstBatch(bringup_rest))
              /\ bringup_rest' = AfterFirstBatch(bringup_rest)

\* the pair of a returning connect_nodes_batch is (entries of its input that
\* this call has connected, entries of its input)
PairReturned ==
    /\ (bringup_pc = "idle" /\ bringup_pc' = "gather") =>
          \A node_ids \in BringUpInputs :
              BringUp(node_ids) => total_nodes' = Len(node_ids)
    /\ (bringup_pc = "gather" /\ bringup_pc' = "idle") =>
          connect_nodes_batch_return = <<call_connected, total_nodes>>

\* C34: with batch_size > 0 bring-up works through the input in consecutive
\* groups of batch_size nodes in input order, the next group starting only
\* when every attempt of the group before has finished, so at most batch_size
\* nodes are being connected at any time; and the call returns the pair
\* (number of nodes it has connected, number of input nodes).
C34_GroupsInOrderAndPairReturned ==
    [][GroupsOfBatchSize /\ PairReturned]_vars

\* the gather of the last of several batches is back: the batches before
\* have connected one entry and not another, this one has connected one
C34_Witness ==
    /\ config.batch_size > 0
    /\ bringup_pc = "gather"
    /\ bringup_rest = <<>>
    /\ successful > 0
    /\ successful + Len(bringup_batch) < total_nodes
    /\ \A i \in DOMAIN bringup_batch : task_pc[i] = "done"
    /\ \E i \in DOMAIN bringup_batch : task_result[i] = "true"

\* C38: the recorded priorities and the active subscriptions describe the
\* same set: there is a priority entry for node_id/topic if and only if topic
\* is in the node's active subscriptions, whatever subscribes, evictions and
\* unsubscribes have run, raising ones included.
C38_PrioritiesMatchActive ==
    \A n \in SubNodes : \A t \in SubTopics :
        DictHas(subscription_priority, <<n, t>>)
            <=> t \in TopicsOf(active_subscriptions, n)

\* C35: a disconnect with an allow-list (--node-id) disconnects the listed
\* nodes only: every connected node that is not listed is still connected,
\* with no disconnect of its session under way, and still a publish target
\* after the command; and a node that was disconnected is no longer among
\* the manager's live connections.
C35_DisconnectTouchesListedOnly ==
    [][ \A node_ids \in SUBSET SeqRange(ShellNodes) :
            (ExecuteDisconnect(TRUE, node_ids) /\ node_ids # {}) =>
                /\ \A n \in SeqRange(shell_connected) \ node_ids :
                      /\ n \in SeqRange(shell_connected')
                      /\ n \notin shell_disconnecting'
                /\ \A n \in node_ids : n \notin SeqRange(shell_connected')
      ]_vars

\* C40: no connected node is starved by the health sweep: whatever the number
\* of connections, a node that stays in the live-connections map is probed
\* by some sweep, so that again and again every node the map holds is one
\* that a sweep has probed.
C40_EveryConnectionIsProbed ==
    []<>(SeqRange(sweep_connections) \subseteq sweep_probed)

\* C29: the rate limiter is a token bucket of capacity connection_rate_limit:
\* the number of available tokens is never greater than
\* connection_rate_limit, and each one-second refill of the running pool
\* leaves exactly connection_rate_limit tokens, after any number of seconds
\* with no connect.
C29_RateLimiterIsBucketOfCapacity ==
    [][ RateBounded' =>
           /\ rate_limiter' <= config'.connection_rate_limit
           /\ (PoolTick /\ is_running) =>
                  rate_limiter' = config'.connection_rate_limit
      ]_vars

(***************************************************************************)
\* what holds at every moment of a publish_to_node call
PtnBounded ==
    /\ ptn_publishes <= PtnMaxRetries
    /\ ptn_pc = "returned" => ptn_result \in {"true", "false"}
    /\ (ptn_pc # "idle" /\ ptn_entry = "absent") =>
          /\ ptn_pc = "returned"
          /\ ptn_result = "false"
          /\ ptn_publishes = 0
          /\ ptn_reconnects = 0

\* C12: a publish_to_node call makes at most 3 publish attempts whatever the
\* session does, it always ends by returning success or failure (it never
\* raises), and for a node that is not in the live connections it returns
\* failure without any publish or reconnect attempt.
C12_PublishToNodeBoundedAndReturns ==
    /\ []PtnBounded
    /\ (ptn_pc # "idle") ~> (ptn_pc = "returned")

\* C12 witness: a call has returned failure after its third publish attempt
C12_Witness ==
    /\ ptn_pc = "returned"
    /\ ptn_result = "false"
    /\ ptn_publishes = PtnMaxRetries

(***************************************************************************)
(*                     CLAIMS ABOUT THE OTA JOB STORE                      *)
(***************************************************************************)
\* C5: no (node_id, ota_job_id) is present in both the Active and the History
\* partition, whatever sequence of URL responses, status updates and clears
\* has happened.
C5_ActiveHistoryDisjoint ==
    \A n \in Nodes, j \in JobIds : ~(InActive(n, j) /\ InHistory(n, j))

C8_QosForcedOnlyForOtastatusSuffix ==
    pub_handed.sent =>
        pub_handed.qos = IF pub_request.suffix = StrOtastatus THEN 0 ELSE pub_request.qos

(***************************************************************************)
(*                     CLAIMS ABOUT THE MQTT SESSION                       *)
(***************************************************************************)
\* C9: at most one live probe is issued per ping_interval: any two probes of
\* the session are issued at least ping_interval apart, also when several
\* callers run is_connected concurrently.
C9_AtMostOneProbePerInterval ==
    Len(s_probe_log) = 2 => s_probe_log[2] - s_probe_log[1] >= PingInterval

\* C10: connect, disconnect and reconnect are serialized: no disconnect runs
\* while a connect on the session is in flight, and no two connects overlap.
C10_ConnectDisconnectSerialized ==
    /\ Cardinality(ConnectsInFlight) <= 1
    /\ ~(ConnectsInFlight # {} /\ DisconnectsInFlight # {})

(***************************************************************************)
(*                CLAIMS ABOUT THE SUBSCRIPTION MANAGER                    *)
(***************************************************************************)
\* C17: from every manager state, for every node and topic list,
\* subscribe_node_topics followed by unsubscribe_node of that node leaves the
\* active subscriptions and the recorded priorities as they were before the
\* subscribe, and the total subscription count goes down by the number of
\* topics subscribed.
C17_SubscribeThenUnsubscribeRestores ==
    subs_life = "built" =>
        \A node_id \in SubNodes, topics \in TopicLists, priority \in Priorities :
            LET subscribed   == subscribe_node_topics(Manager, max_subscriptions,
                                                      node_id, topics, priority, {})
                unsubscribed == unsubscribe_node(subscribed, node_id, {})
            IN /\ unsubscribed.active = active_subscriptions
               /\ unsubscribed.priority = subscription_priority
               /\ TotalSubscriptions(subscribed.active)
                    - TotalSubscriptions(unsubscribed.active)
                  = Cardinality({topics[i] : i \in DOMAIN topics})

\* C18: when max_subscriptions is set, the total number of active
\* subscriptions over all nodes never exceeds it, whatever calls were made and
\* whichever of their subscribes and unsubscribes failed.
C18_TotalWithinMaxSubscriptions ==
    max_subscriptions # 0 =>
        TotalSubscriptions(active_subscriptions) <= max_subscriptions

\* C19: a subscription that subscribe_node_topics evicts to make room is
\* unsubscribed on the session: after the call no topic that left the active
\* set is still subscribed at the session.
C19_EvictedTopicsLeaveTheSession ==
    subs_life = "built" =>
        \A node_id \in SubNodes, topics \in TopicLists, priority \in Priorities :
            LET after == subscribe_node_topics(Manager, max_subscriptions, node_id,
                                               topics, priority, {})
            IN \A n \in SubNodes, t \in SubTopics :
                  (t \in TopicsOf(active_subscriptions, n)
                   /\ t \notin TopicsOf(after.active, n))
                  => <<n, t>> \notin after.session

(***************************************************************************)
(*                 CLAIMS ABOUT THE ADAPTIVE MONITOR                       *)
(***************************************************************************)
\* C20: whenever a turn of the monitoring loop runs the level adjustment on a
\* node whose level is High and whose consecutive_successes is at least 10,
\* the node's level becomes Normal, whatever its error_count is.
C20_HighWithTenSuccessesBecomesNormal ==
    \A node_id \in active_monitors \cap DOMAIN node_profiles, inactive \in BOOLEAN :
        LET checked == check_node_health(node_profiles[node_id], inactive)
        IN (mon_running /\ checked.level = HIGH /\ checked.consecutive_successes >= 10)
           => adjust_monitoring_level(checked).level = NORMAL

\* C21: whenever a turn of the monitoring loop runs the level adjustment on a
\* node whose level is Normal, whose error_count is 0 and whose
\* consecutive_successes is at least 10, the node's level becomes Low (so a
\* healthy node seeded at Normal gets to Low).
C21_HealthyNormalBecomesLow ==
    \A node_id \in active_monitors \cap DOMAIN node_profiles, inactive \in BOOLEAN :
        LET checked == check_node_health(node_profiles[node_id], inactive)
        IN (mon_running /\ checked.level = NORMAL /\ checked.error_count = 0
            /\ checked.consecutive_successes >= 10)
           => adjust_monitoring_level(checked).level = LOW

\* C22: after a turn of the monitoring loop (health check, then level
\* adjustment) on a node whose last activity is more than 300 s old, the
\* node's level is High or Critical, whatever error_count and
\* consecutive_successes are.
C22_InactiveNodeAtLeastHigh ==
    \A node_id \in active_monitors \cap DOMAIN node_profiles :
        mon_running =>
            adjust_monitoring_level(check_node_health(node_profiles[node_id], TRUE)).level
                \in {HIGH, CRITICAL}

\* C23: record_node_error on a monitored node sets its level to Critical, its
\* consecutive_successes to 0 and adds one to its error_count, and touches
\* nothing else; on an unknown node it changes nothing.
C23_RecordNodeErrorForcesCritical ==
    [][ \A node_id \in MonNodes :
            RecordNodeError(node_id) =>
                /\ IF MapHas(node_profiles, node_id)
                   THEN /\ DOMAIN node_profiles' = DOMAIN node_profiles
                        /\ node_profiles'[node_id].level = CRITICAL
                        /\ node_profiles'[node_id].consecutive_successes = 0
                        /\ node_profiles'[node_id].error_count
                             = node_profiles[node_id].error_count + 1
                   ELSE node_profiles' = node_profiles
                /\ UNCHANGED <<mon_running, active_monitors>>
      ]_vars

\* C23 witness: a second error has just been recorded on a monitored node
C23_Witness ==
    \E node_id \in DOMAIN node_profiles :
        /\ node_profiles[node_id].level = CRITICAL
        /\ node_profiles[node_id].consecutive_successes = 0
        /\ node_profiles[node_id].error_count = 2

\* C24: with max_concurrent_monitors > 0 the number of monitoring loops that
\* run at the same time never exceeds max_concurrent_monitors.
C24_RunningMonitorsWithinBound ==
    max_concurrent_monitors > 0 =>
        Cardinality(active_monitors) <= max_concurrent_monitors

(***************************************************************************)
(*              CLAIMS ABOUT START-UP AND THE SESSION BOOK                 *)
(***************************************************************************)
\* C25: once the shell is up after a bring-up of 5 nodes that all connected,
\* the monitor holds exactly 5 profiles, the first 2 nodes at High and the
\* other 3 at Normal, and active_config.nodes has 5 entries with status
\* connected.
C25_FiveNodesSeededAndTracked ==
    (shell_pc = "prompt" /\ shell_connected = StartupNodes) =>
        /\ DOMAIN node_profiles = SeqRange(StartupNodes)
        /\ \A i \in DOMAIN StartupNodes :
              node_profiles[StartupNodes[i]].level = IF i <= 2 THEN HIGH ELSE NORMAL
        /\ DOMAIN active_nodes = SeqRange(StartupNodes)
        /\ \A n \in DOMAIN active_nodes : active_nodes[n].status = "connected"

\* the disconnect of node n in this step is on the books: its entry in
\* active_config is stamped and one "disconnected" record is appended to its
\* history
DisconnectBooked(n) ==
    /\ n \in DOMAIN active_nodes'
    /\ active_nodes'[n].status = "disconnected"
    /\ active_nodes'[n].disconnected_at
    /\ n \in DOMAIN connection_history
    /\ connection_history'[n] = Append(connection_history[n], "disconnected")

\* C27: every disconnect of a node by the operator (of listed nodes, of all
\* nodes, and the one done by exit) stamps disconnected_at and status
\* disconnected on the node's entry in active_config and appends exactly one
\* "disconnected" record to the node's history (for exit, whose next step
\* truncates active_config, the history record); records already in the
\* history are never removed or changed.
C27_OperatorDisconnectsAreBooked ==
    [][ /\ \A node_ids \in SUBSET SeqRange(ShellNodes) :
              ExecuteDisconnect(TRUE, node_ids) => \A n \in node_ids : DisconnectBooked(n)
        /\ ExecuteDisconnect(FALSE, {}) =>
              \A n \in SeqRange(shell_connected) : DisconnectBooked(n)
        /\ HandleExit =>
              \A n \in SeqRange(shell_connected) :
                  /\ n \in DOMAIN connection_history
                  /\ connection_history'[n] = Append(connection_history[n], "disconnected")
        /\ \A n \in DOMAIN connection_history :
              /\ n \in DOMAIN connection_history'
              /\ Len(connection_history'[n]) >= Len(connection_history[n])
              /\ SubSeq(connection_history'[n], 1, Len(connection_history[n]))
                   = connection_history[n]
      ]_vars

\* C28: whenever the shell session has ended (exit or quit, end of input, or
\* interrupt), the nodes map of active_config.json is empty.
C28_ActiveConfigEmptyAfterSession ==
    shell_pc = "ended" => active_nodes = EmptyMap

\* C30: read-modify-write operations on the OTA partitions are serialized:
\* under every interleaving of store_ota_job (callback thread) with
\* move_ota_job_to_history or clear_ota_jobs (operator thread), once both
\* threads are back from their calls every job that was given to
\* store_ota_job, and that no status update or clear has named since, is in
\* ota_jobs and in ota_jobs.json; no stored job is lost.
C30_NoStoredJobLost ==
    (cb_pc = "idle" /\ op_pc = "idle") =>
        /\ stored_jobs \subseteq JobPairs(ota_jobs)
        /\ stored_jobs \subseteq JobPairs(ota_jobs_file)

\* C31: when a publish to a Connected node fails unrecoverably (the call of
\* publish_to_node that found the node connected returns failure after its
\* attempts), the node's session state is Failed and the pool no longer
\* reports the node as connected.
C31_UnrecoverablePublishMarksFailed ==
    [][ ( /\ ptn_pc # "returned"
          /\ ptn_pc' = "returned"
          /\ ptn_result' = "false"
          /\ ptn_entry' = "client" )
        => /\ StateOf(connection_states', ptn_node') = Failed
           /\ PoolView(connection_states', ptn_node') = "absent"
      ]_vars

\* C32: for a verb that publishes to a set of target nodes, the success
\* count it reports equals the number of targets for which publish_to_node
\* returned success; a node whose publish failed after all attempts is not
\* counted.
C32_ReportedCountIsSuccessfulPublishes ==
    verb_pc = "reported" => success_count = verb_true

\* C39: send-ota-status moves an Active job to History only if the otastatus
\* publish for that node was reported successful by publish_to_node: a step
\* that takes a job out of Active or changes History happens only on a
\* return of True; when the publish fails the job stays Active and History
\* is unchanged.
C39_MoveOnlyAfterSuccessfulPublish ==
    [][ ( \/ ota_status_history' # ota_status_history
          \/ ~(JobPairs(ota_jobs) \subseteq JobPairs(ota_jobs')) )
        => (ptn_pc = "returned" /\ ptn_result = "true")
      ]_vars

(***************************************************************************)
(*                          SPECIFICATIONS                                 *)
(***************************************************************************)
InitAll ==
    /\ OtaIdle
    /\ PubIdle
    /\ SessIdle
    /\ PoolIdle
    /\ PtnIdle
    /\ SubsIdle
    /\ MonIdle
    /\ ShellIdle
    /\ ThrIdle
    /\ VerbIdle
    /\ SweepIdle

SpecOta == InitAll /\ [][NextOta]_vars

SpecPublish == InitAll /\ [][NextPublish]_vars

SpecSession == InitAll /\ [][NextSession]_vars

SpecPool == InitAll /\ [][NextPool]_vars

\* every await of a running publish_to_node call returns: the sleeps end and
\* the client calls are bounded by the operation timeout
SpecPublishToNode ==
    InitAll /\ [][NextPublishToNode]_vars /\ WF_vars(PtnProgress)

SpecSubs == InitAll /\ [][NextSubs]_vars

SpecMonitor == InitAll /\ [][NextMonitor]_vars

SpecMonitorSlots == InitAll /\ [][NextMonitorSlots]_vars

SpecStartup == InitAll /\ [][NextStartup]_vars

SpecShell == InitAll /\ [][NextShell]_vars

\* the event loop runs a task that is ready and the clock goes on
SpecBringUp == InitAll /\ [][NextBringUp]_vars /\ WF_vars(BringUpProgress)

SpecManager == InitAll /\ [][NextManager]_vars

SpecVerb == InitAll /\ [][NextVerb]_vars

SpecSendOtaStatus == InitAll /\ [][NextSendOtaStatus]_vars

SpecOtaThreads == InitAll /\ [][NextOtaThreads]_vars

SpecSweep == InitAll /\ [][NextSweep]_vars /\ WF_vars(HealthCheckLoop)

====
